---- MODULE Spec2Model ----
(***************************************************************************)
(* Model of the gogeo planar-geometry library (Point, LineSegment,         *)
(* OpenInterval): segment intersection by translation, rotation into the   *)
(* frame of the first segment, projection on the x-axis and interval       *)
(* overlap.                                                                *)
(*                                                                         *)
(* float64 values are modelled as exact extended rationals: NaN, +Inf,     *)
(* -Inf or a reduced fraction n/d.  Rounding is not modelled; the special  *)
(* values follow IEEE-754 as Go implements them.                           *)
(*                                                                         *)
(* Coordinates are counted in units of the equality threshold, so the      *)
(* threshold 1e-9 of the source is 1 unit and inputs lie on a grid whose   *)
(* step is that threshold.                                                 *)
(***************************************************************************)
EXTENDS Integers, Sequences, FiniteSets, TLC

VARIABLES l1, l2, o1, o2, done, res, l1x, l2x, q12, q21, q11, emp,
          pt1, pt2, scal, theta, tri1, tri2, out

vars == <<l1, l2, o1, o2, done, res, l1x, l2x, q12, q21, q11, emp,
          pt1, pt2, scal, theta, tri1, tri2, out>>

\* the values the calls are made on
inputs == <<l1, l2, o1, o2, pt1, pt2, scal, theta, tri1, tri2>>

(* ---------------------------------------------------------------------- *)
(* Bounds of the checked input space.                                      *)
(* ---------------------------------------------------------------------- *)
\* segment coordinates range over 0..MaxCoord units
MaxCoord == 3
\* finite interval bounds range over 0..MaxBound units
MaxBound == 2
\* x-coordinates of triangle vertices range over 0..MaxTriCoord units
MaxTriCoord == 1
\* coordinates of single points range over -MaxPointCoord..MaxPointCoord
MaxPointCoord == 2
\* a scalar is an integer of -MaxScalar..MaxScalar
MaxScalar == 3
\* a translated segment has finite coordinates in 0..MaxSegCoord, NaN or +Inf
MaxSegCoord == 1
\* a segment cut by the x-axis has x in -MaxAxisX..MaxAxisX or NaN, and y a
\* multiple of 1/2 in -MaxAxisY..MaxAxisY, NaN or +Inf
MaxAxisX == 1
MaxAxisY == 1
\* an angle points to a vector with components in -MaxDir..MaxDir
MaxDir == 1

\* float64 segments have integer x in -MaxCrossX..1 and integer y in
\* -MaxCrossY..1, besides a few values near the edges of float64
MaxCrossX == 3

MaxCrossY == 2

\* the two segments given to Intersects in both orders have x in
\* 0..MaxPairX and y in 0..MaxPairY
MaxPairX == 2

MaxPairY == 1

\* segments that may have NaN coordinates have the others in 0..MaxNaNCoord
MaxNaNCoord == 1

\* float64 triangles have vertices (1, n) for n in 0..MaxTri64Y, besides
\* (3, 1 + 2^-52) and (+Inf, 0)
MaxTri64Y == 1

\* translated float64 segments have x in 0..MaxShiftX
MaxShiftX == 2

\* const float64EqualityThreshold = 1e-9, in units of 1e-9
float64EqualityThreshold == 1

(* ---------------------------------------------------------------------- *)
(* float64                                                                 *)
(* ---------------------------------------------------------------------- *)
AbsInt(n) == IF n < 0 THEN -n ELSE n

SgnInt(n) == IF n > 0 THEN 1 ELSE IF n < 0 THEN -1 ELSE 0

RECURSIVE GCD(_, _)
GCD(a, b) == IF b = 0 THEN a ELSE GCD(b, a % b)

NaN == [k |-> "nan", n |-> 0, d |-> 1]

PInf == [k |-> "inf", n |-> 1, d |-> 1]

NInf == [k |-> "inf", n |-> -1, d |-> 1]

Fin(n) == [k |-> "fin", n |-> n, d |-> 1]

\* the float n/d (d # 0), as a reduced fraction with a positive denominator
Frac(n, d) ==
    LET g == GCD(AbsInt(n), AbsInt(d))
    IN  [k |-> "fin", n |-> SgnInt(d) * SgnInt(n) * (AbsInt(n) \div g),
                      d |-> AbsInt(d) \div g]

IsNaN(x) == x.k = "nan"

\* math.IsInf(x, 0)
IsInf(x) == x.k = "inf"

\* the sign of a non-NaN float
Sgn(x) == SgnInt(x.n)

InfOfSign(s) == IF s > 0 THEN PInf ELSE NInf

\* x < y : false when either operand is NaN
FLt(x, y) ==
    /\ ~IsNaN(x)
    /\ ~IsNaN(y)
    /\ IF IsInf(x) \/ IsInf(y)
       THEN \/ (x = NInf /\ y # NInf)
            \/ (y = PInf /\ x # PInf)
       ELSE x.n * y.d < y.n * x.d

\* x == y : false when either operand is NaN
FEq(x, y) == ~IsNaN(x) /\ ~IsNaN(y) /\ x = y

FNeg(x) == IF IsNaN(x) THEN NaN ELSE [x EXCEPT !.n = -x.n]

FAbs(x) == IF IsNaN(x) THEN NaN ELSE [x EXCEPT !.n = AbsInt(x.n)]

FAdd(x, y) ==
    IF IsNaN(x) \/ IsNaN(y) THEN NaN
    ELSE IF IsInf(x) /\ IsInf(y) THEN (IF x = y THEN x ELSE NaN)
    ELSE IF IsInf(x) THEN x
    ELSE IF IsInf(y) THEN y
    ELSE Frac(x.n * y.d + y.n * x.d, x.d * y.d)

FSub(x, y) == FAdd(x, FNeg(y))

FMul(x, y) ==
    IF IsNaN(x) \/ IsNaN(y) THEN NaN
    ELSE IF IsInf(x) \/ IsInf(y)
         THEN (IF Sgn(x) = 0 \/ Sgn(y) = 0 THEN NaN
               ELSE InfOfSign(Sgn(x) * Sgn(y)))
    ELSE Frac(x.n * y.n, x.d * y.d)

\* x / y : a zero divisor is +0 (the result of a subtraction of equal values)
FDiv(x, y) ==
    IF IsNaN(x) \/ IsNaN(y) THEN NaN
    ELSE IF IsInf(x) /\ IsInf(y) THEN NaN
    ELSE IF IsInf(x) THEN InfOfSign(Sgn(x) * (IF Sgn(y) < 0 THEN -1 ELSE 1))
    ELSE IF IsInf(y) THEN Fin(0)
    ELSE IF y.n = 0 THEN (IF x.n = 0 THEN NaN ELSE InfOfSign(Sgn(x)))
    ELSE Frac(x.n * y.d, x.d * y.n)

\* math.Max: +Inf wins over NaN, then NaN, then the larger operand
MathMax(x, y) ==
    IF x = PInf \/ y = PInf THEN PInf
    ELSE IF IsNaN(x) \/ IsNaN(y) THEN NaN
    ELSE IF FLt(y, x) THEN x ELSE y

\* math.Min: -Inf wins over NaN, then NaN, then the smaller operand
MathMin(x, y) ==
    IF x = NInf \/ y = NInf THEN NInf
    ELSE IF IsNaN(x) \/ IsNaN(y) THEN NaN
    ELSE IF FLt(x, y) THEN x ELSE y

(* ---------------------------------------------------------------------- *)
(* Rounded float64 results.  math.Sqrt and a product with its result are   *)
(* not fractions of small integers, so they are kept as the float64 the    *)
(* hardware returns: Bin(m, e) is m * 2^e with a 53-bit significand m      *)
(* (2^52 <= m < 2^53, or m = 0), rounded to nearest, ties to even.  A      *)
(* significand is a number of 4 limbs of 15 bits, least significant first. *)
(* ---------------------------------------------------------------------- *)
Limb(t) == t % 32768

Carry(t) == t \div 32768

BigZero == <<0, 0, 0, 0>>

\* 2^52 and 2^53
Two52 == <<0, 0, 0, 128>>

Two53 == <<0, 0, 0, 256>>

RECURSIVE BigMulAdd(_, _, _)
\* a * k + c for small k and c
BigMulAdd(a, k, c) ==
    IF a = <<>> THEN <<>>
    ELSE LET t == Head(a) * k + c
         IN  <<Limb(t)>> \o BigMulAdd(Tail(a), k, Carry(t))

RECURSIVE BigLess(_, _)
BigLess(a, b) ==
    IF a = <<>> THEN FALSE
    ELSE LET n == Len(a)
         IN  IF a[n] # b[n] THEN a[n] < b[n]
             ELSE BigLess(SubSeq(a, 1, n - 1), SubSeq(b, 1, n - 1))

RECURSIVE BigSub(_, _, _)
\* a - b - borrow, for a >= b + borrow
BigSub(a, b, borrow) ==
    IF a = <<>> THEN <<>>
    ELSE LET t == Head(a) - Head(b) - borrow
         IN  IF t < 0 THEN <<t + 32768>> \o BigSub(Tail(a), Tail(b), 1)
             ELSE <<t>> \o BigSub(Tail(a), Tail(b), 0)

RECURSIVE BigDiv(_, _, _)
\* the quotient of (rem * 2^60 + a) by a small k
BigDiv(a, k, rem) ==
    IF a = <<>> THEN <<>>
    ELSE LET n == Len(a)
             t == rem * 32768 + a[n]
         IN  BigDiv(SubSeq(a, 1, n - 1), k, t % k) \o <<t \div k>>

Bin(m, e) == [k |-> "bin", m |-> m, e |-> e]

BinZero == Bin(BigZero, 0)

RECURSIVE ExcessBits(_, _)
\* the number of low bits of P beyond a 53-bit significand
ExcessBits(P, s) ==
    IF BigLess(BigDiv(P, 2 ^ s, 0), Two53) THEN s ELSE ExcessBits(P, s + 1)

\* the float64 nearest to (P + fraction) * 2^e, ties to even; sticky says
\* that the fraction below P is not zero (P then carries a guard bit)
RoundToNearestEven(P, sticky, e) ==
    LET s == ExcessBits(P, 0)
    IN  IF s = 0 THEN Bin(P, e)
        ELSE LET Q    == BigDiv(P, 2 ^ s, 0)
                 R    == P[1] % (2 ^ s)
                 half == 2 ^ (s - 1)
                 up   == R > half \/ (R = half /\ (sticky \/ Q[1] % 2 = 1))
                 Q1   == IF up THEN BigMulAdd(Q, 1, 1) ELSE Q
             IN  IF Q1 = Two53 THEN Bin(Two52, e + s + 1) ELSE Bin(Q1, e + s)

RECURSIVE Base4(_)
\* the digits of n in base 4, most significant first
Base4(n) == IF n < 4 THEN <<n>> ELSE Base4(n \div 4) \o <<n % 4>>

RECURSIVE SqrtDigits(_, _, _, _)
\* digit-by-digit square root of the number whose base-4 digits are pairs
\* followed by zeros more zero digits: the root q and the remainder r
SqrtDigits(pairs, zeros, r, q) ==
    IF pairs = <<>> /\ zeros = 0 THEN [q |-> q, r |-> r]
    ELSE LET pair == IF pairs = <<>> THEN 0 ELSE Head(pairs)
             rest == IF pairs = <<>> THEN <<>> ELSE Tail(pairs)
             z    == IF pairs = <<>> THEN zeros - 1 ELSE zeros
             r1   == BigMulAdd(r, 4, pair)
             t    == BigMulAdd(q, 4, 1)
         IN  IF BigLess(r1, t)
             THEN SqrtDigits(rest, z, r1, BigMulAdd(q, 2, 0))
             ELSE SqrtDigits(rest, z, BigSub(r1, t, 0), BigMulAdd(q, 2, 1))

\* math.Sqrt of an integer-valued float64: the root of x * 4^t to 54 bits,
\* rounded to 53
Sqrt(x) ==
    IF IsNaN(x) \/ Sgn(x) < 0 THEN NaN
    ELSE IF IsInf(x) THEN PInf
    ELSE IF x.n = 0 THEN BinZero
    ELSE LET pairs == Base4(x.n)
             t     == 54 - Len(pairs)
             root  == SqrtDigits(pairs, t, BigZero, BigZero)
         IN  RoundToNearestEven(root.q, root.r # BigZero, -t)

\* float64 product of an integer-valued float64 f >= 0 and a rounded value b
Float64Mul(f, b) ==
    IF IsNaN(f) \/ IsNaN(b) THEN NaN
    ELSE IF f.n = 0 \/ b = BinZero THEN BinZero
    ELSE RoundToNearestEven(BigMulAdd(b.m, f.n, 0), FALSE, b.e)

(* ---------------------------------------------------------------------- *)
(* float64 arithmetic with rounding and overflow, for the claims that      *)
(* depend on them.  F64(s, m, e) is s * m * 2^e with the sign s in         *)
(* {1, -1} and the significand m of 4 limbs: 2^52 <= m < 2^53 and          *)
(* -1074 <= e <= 971 for a normal number, m < 2^52 and e = -1074 for a     *)
(* subnormal one or a zero.  NaN, PInf and NInf are those of the exact     *)
(* layer.  Exact intermediate results have 8 limbs.                        *)
(* ---------------------------------------------------------------------- *)
F64(s, m, e) == [k |-> "f64", s |-> s, m |-> m, e |-> e]

Big8Zero == <<0, 0, 0, 0, 0, 0, 0, 0>>

\* a significand as an 8-limb number, and back
Widen(a) == a \o <<0, 0, 0, 0>>

Low4(a) == SubSeq(a, 1, 4)

LimbAt(a, i) == IF i \in 1..Len(a) THEN a[i] ELSE 0

RECURSIVE BigAdd(_, _, _)
BigAdd(a, b, carry) ==
    IF a = <<>> THEN <<>>
    ELSE LET t == Head(a) + Head(b) + carry
         IN  <<Limb(t)>> \o BigAdd(Tail(a), Tail(b), Carry(t))

\* the 15 bits of a from bit p upwards, p >= 0
Window(a, p) ==
    LET q == p \div 15
        r == p % 15
    IN  (LimbAt(a, q + 1) \div (2 ^ r)) + (LimbAt(a, q + 2) % (2 ^ r)) * (2 ^ (15 - r))

\* a \div 2^s
BigShr(a, s) == [j \in 1..Len(a) |-> Window(a, s + 15 * (j - 1))]

\* a * 2^s, for a result that fits the length of a
BigShl(a, s) ==
    [j \in 1..Len(a) |->
        LET p == 15 * (j - 1) - s
        IN  IF p >= 0 THEN Window(a, p)
            ELSE IF p <= -15 THEN 0
            ELSE (a[1] % (2 ^ (15 + p))) * (2 ^ (-p))]

BigBit(a, i) == (LimbAt(a, (i \div 15) + 1) \div (2 ^ (i % 15))) % 2

RECURSIVE SmallLen(_)
\* the number of bits of a limb
SmallLen(n) == IF n = 0 THEN 0 ELSE 1 + SmallLen(n \div 2)

RECURSIVE BigLen(_)
\* the number of bits of a
BigLen(a) ==
    IF a = <<>> THEN 0
    ELSE IF a[Len(a)] # 0 THEN 15 * (Len(a) - 1) + SmallLen(a[Len(a)])
    ELSE BigLen(SubSeq(a, 1, Len(a) - 1))

\* a small natural number as an 8-limb number
BigOf(n) == <<n % 32768, (n \div 32768) % 32768, n \div (32768 * 32768), 0, 0, 0, 0, 0>>

RECURSIVE BigMulFrom(_, _, _)
\* the sum over j >= i of a * b[j] * 2^(15 (j - 1)), a of 8 limbs
BigMulFrom(a, b, i) ==
    IF i > Len(b) THEN Big8Zero
    ELSE BigAdd(BigMulAdd(BigShl(a, 15 * (i - 1)), b[i], 0),
                BigMulFrom(a, b, i + 1), 0)

\* the product of two significands, of 8 limbs
BigMul(a, b) == BigMulFrom(Widen(a), b, 1)

\* the float64 s * Q1 * 2^e for a rounded significand Q1 <= 2^53; a result
\* of 2^1024 or more is an infinity
F64Carry(s, Q1, e) ==
    LET m  == IF Q1 = Two53 THEN Two52 ELSE Q1
        e1 == IF Q1 = Two53 THEN e + 1 ELSE e
    IN  IF e1 > 971 THEN InfOfSign(s) ELSE F64(s, m, e1)

\* F64Round for a P of L bits, P > 0
F64RoundLen(s, P, e, sticky, L) ==
    LET need == IF L - 53 > -1074 - e THEN L - 53 ELSE -1074 - e
    IN  IF need <= 0
        THEN LET room == IF 53 - L < e + 1074 THEN 53 - L ELSE e + 1074
             IN  IF e - room > 971 THEN InfOfSign(s)
                 ELSE F64(s, Low4(BigShl(P, room)), e - room)
        ELSE LET Q     == BigShr(P, need)
                 guard == BigBit(P, need - 1)
                 low   == sticky \/ BigShl(BigShr(P, need - 1), need - 1) # P
                 up    == guard = 1 /\ (low \/ Q[1] % 2 = 1)
             IN  F64Carry(s, Low4(IF up THEN BigMulAdd(Q, 1, 1) ELSE Q), e + need)

\* the float64 nearest to s * (P + fraction) * 2^e, ties to even, for an
\* 8-limb P; sticky says that the fraction is not zero (P then has at
\* least 55 bits); a result of 2^1024 or more is an infinity
F64Round(s, P, e, sticky) ==
    IF P = Big8Zero THEN F64(s, BigZero, -1074)
    ELSE F64RoundLen(s, P, e, sticky, BigLen(P))

\* the float64 n * 2^e for an integer n below 2^31 in magnitude
F64Make(n, e) == F64Round(IF n < 0 THEN -1 ELSE 1, BigOf(AbsInt(n)), e, FALSE)

F64IsZero(x) == x.k = "f64" /\ x.m = BigZero

\* the sign of x, which is not NaN
F64Sign(x) == IF x.k = "inf" THEN x.n ELSE x.s

F64Neg(x) ==
    IF IsNaN(x) THEN NaN
    ELSE IF IsInf(x) THEN InfOfSign(-x.n)
    ELSE [x EXCEPT !.s = -x.s]

F64Abs(x) ==
    IF IsNaN(x) THEN NaN
    ELSE IF IsInf(x) THEN PInf
    ELSE [x EXCEPT !.s = 1]

\* |x| < |y| for finite x and y
F64MagLess(x, y) == x.e < y.e \/ (x.e = y.e /\ BigLess(x.m, y.m))

\* x < y
F64Lt(x, y) ==
    /\ ~IsNaN(x)
    /\ ~IsNaN(y)
    /\ IF IsInf(x) \/ IsInf(y)
       THEN \/ (x = NInf /\ y # NInf)
            \/ (y = PInf /\ x # PInf)
       ELSE IF F64IsZero(x) /\ F64IsZero(y) THEN FALSE
       ELSE IF x.s # y.s THEN x.s < y.s
       ELSE IF x.s = 1 THEN F64MagLess(x, y)
       ELSE F64MagLess(y, x)

\* x == y
F64Eq(x, y) ==
    /\ ~IsNaN(x)
    /\ ~IsNaN(y)
    /\ x = y \/ (F64IsZero(x) /\ F64IsZero(y))

\* x + y
F64Add(x, y) ==
    IF IsNaN(x) \/ IsNaN(y) THEN NaN
    ELSE IF IsInf(x) /\ IsInf(y) THEN (IF x = y THEN x ELSE NaN)
    ELSE IF IsInf(x) THEN x
    ELSE IF IsInf(y) THEN y
    ELSE IF F64IsZero(x) /\ F64IsZero(y)
         THEN (IF x.s = -1 /\ y.s = -1 THEN x ELSE F64(1, BigZero, -1074))
    ELSE IF F64IsZero(x) THEN y
    ELSE IF F64IsZero(y) THEN x
    ELSE LET a == IF x.e >= y.e THEN x ELSE y
             b == IF x.e >= y.e THEN y ELSE x
             d == a.e - b.e
         IN  IF d > 60 THEN a
             ELSE LET A == BigShl(Widen(a.m), d)
                      B == Widen(b.m)
                  IN  IF a.s # b.s /\ A = B THEN F64(1, BigZero, -1074)
                      ELSE F64Round(IF a.s # b.s /\ BigLess(A, B) THEN b.s ELSE a.s,
                                    IF a.s = b.s THEN BigAdd(A, B, 0)
                                    ELSE IF BigLess(A, B) THEN BigSub(B, A, 0)
                                    ELSE BigSub(A, B, 0),
                                    b.e, FALSE)

\* x - y
F64Sub(x, y) == F64Add(x, F64Neg(y))

\* x * y
F64Mul(x, y) ==
    IF IsNaN(x) \/ IsNaN(y) THEN NaN
    ELSE IF IsInf(x) \/ IsInf(y)
         THEN (IF F64IsZero(x) \/ F64IsZero(y) THEN NaN
               ELSE InfOfSign(F64Sign(x) * F64Sign(y)))
    ELSE F64Round(x.s * y.s, BigMul(x.m, y.m), x.e + y.e, FALSE)

RECURSIVE DivDigits(_, _, _)
\* the quotient q and the remainder rem of num * 32^n by d, for num < 2 d,
\* five bits at a time
DivDigits(num, d, n) ==
    IF n = 0
    THEN (IF BigLess(num, d) THEN [q |-> BigZero, rem |-> num]
          ELSE [q |-> <<1, 0, 0, 0>>, rem |-> BigSub(num, d, 0)])
    ELSE LET prev  == DivDigits(num, d, n - 1)
             r32   == BigMulAdd(prev.rem, 32, 0)
             digit == CHOOSE c \in 0..31 :
                          /\ ~BigLess(r32, BigMulAdd(d, c, 0))
                          /\ BigLess(r32, BigMulAdd(d, c + 1, 0))
         IN  [q   |-> BigMulAdd(prev.q, 32, digit),
              rem |-> BigSub(r32, BigMulAdd(d, digit, 0), 0)]

\* x / y
F64Div(x, y) ==
    IF IsNaN(x) \/ IsNaN(y) THEN NaN
    ELSE IF IsInf(x) /\ IsInf(y) THEN NaN
    ELSE IF IsInf(x) THEN InfOfSign(F64Sign(x) * F64Sign(y))
    ELSE IF IsInf(y) THEN F64(F64Sign(x) * F64Sign(y), BigZero, -1074)
    ELSE IF F64IsZero(y)
         THEN (IF F64IsZero(x) THEN NaN ELSE InfOfSign(x.s * y.s))
    ELSE IF F64IsZero(x) THEN F64(x.s * y.s, BigZero, -1074)
    ELSE LET sx  == 53 - BigLen(x.m)
             sy  == 53 - BigLen(y.m)
             qr  == DivDigits(BigShl(x.m, sx), BigShl(y.m, sy), 11)
         IN  F64Round(x.s * y.s, Widen(qr.q), (x.e - sx) - (y.e - sy) - 55,
                      qr.rem # BigZero)

(* ---------------------------------------------------------------------- *)
(* Angles.  An angle is kept as the direction <<x, y>> it points to, an    *)
(* integer vector in lowest terms; Hyp2 is the squared length of that      *)
(* vector.  Sin and Cos return the sine and the cosine multiplied by the   *)
(* positive factor sqrt(Hyp2), so every coordinate produced by Rotate is   *)
(* the rotated coordinate multiplied by that factor, and comparisons with  *)
(* the threshold take Hyp2 as the square of the scale of their operand.    *)
(* ---------------------------------------------------------------------- *)
AngleNaN == [k |-> "nan", x |-> 0, y |-> 0]

Dir(x, y) ==
    IF x = 0 /\ y = 0 THEN [k |-> "dir", x |-> 1, y |-> 0]
    ELSE LET g == GCD(AbsInt(x), AbsInt(y))
         IN  [k |-> "dir", x |-> SgnInt(x) * (AbsInt(x) \div g),
                           y |-> SgnInt(y) * (AbsInt(y) \div g)]

\* math.Atan2(y, x); Atan2(0, 0) = 0
Atan2(y, x) ==
    IF IsNaN(y) \/ IsNaN(x) THEN AngleNaN
    ELSE IF IsInf(y) \/ IsInf(x)
         THEN Dir(IF IsInf(x) THEN Sgn(x) ELSE 0, IF IsInf(y) THEN Sgn(y) ELSE 0)
    ELSE Dir(x.n * y.d, y.n * x.d)

\* unary minus on an angle
NegAngle(a) == [a EXCEPT !.y = -a.y]

Hyp2(a) == IF a.k = "nan" THEN 1 ELSE a.x * a.x + a.y * a.y

Sin(a) == IF a.k = "nan" THEN NaN ELSE Fin(a.y)

Cos(a) == IF a.k = "nan" THEN NaN ELSE Fin(a.x)

(* ---------------------------------------------------------------------- *)
(* Point                                                                   *)
(* ---------------------------------------------------------------------- *)
Point(x, y) == [X |-> x, Y |-> y]

\* exact comparison of both coordinates
PointEquals(p, q) == FEq(p.X, q.X) /\ FEq(p.Y, q.Y)

\* math.Atan2(p.Y, p.X)
PointAngle(p) == Atan2(p.Y, p.X)

PointPlus(p, q) == Point(FAdd(p.X, q.X), FAdd(p.Y, q.Y))

PointMinus(p, q) == Point(FSub(p.X, q.X), FSub(p.Y, q.Y))

\* PointTimes that leaves the Y coordinate unscaled
PointTimes_XOnly(p, f) == Point(FMul(p.X, f), p.Y)

PointTimes(p, f) == Point(FMul(p.X, f), FMul(p.Y, f))

PointDivide(p, f) == Point(FDiv(p.X, f), FDiv(p.Y, f))

\* math.Sqrt(p.X*p.X + p.Y*p.Y)
Magnitude(p) == Sqrt(FAdd(FMul(p.X, p.X), FMul(p.Y, p.Y)))

\* PointRotate turning clockwise
PointRotate_Clockwise(p, angle) ==
    LET s == Sin(angle)
        c == Cos(angle)
    IN  Point(FAdd(FMul(c, p.X), FMul(s, p.Y)),
              FSub(FMul(c, p.Y), FMul(s, p.X)))

\* Point.Rotate that returns p itself for the angle 0
PointRotate_SkipZeroAngle(p, angle) ==
    LET s == Sin(angle)
        c == Cos(angle)
    IN  IF angle = Dir(1, 0) THEN p
        ELSE Point(FSub(FMul(c, p.X), FMul(s, p.Y)),
                   FAdd(FMul(s, p.X), FMul(c, p.Y)))

PointRotate(p, angle) ==
    LET s == Sin(angle)
        c == Cos(angle)
    IN  Point(FSub(FMul(c, p.X), FMul(s, p.Y)),
              FAdd(FMul(s, p.X), FMul(c, p.Y)))

\* PointXIntercept with the slope term added instead of subtracted
PointXIntercept_PlusSlope(p, q) ==
    LET i == FAdd(p.X, FDiv(FMul(p.Y, FSub(q.X, p.X)), FSub(q.Y, p.Y)))
    IN  IF IsInf(i) THEN PInf ELSE i

\* x-intercept of the infinite line through p and q; +Inf for an infinite one
PointXIntercept(p, q) ==
    LET i == FSub(p.X, FDiv(FMul(p.Y, FSub(q.X, p.X)), FSub(q.Y, p.Y)))
    IN  IF IsInf(i) THEN PInf ELSE i

(* ---------------------------------------------------------------------- *)
(* OpenInterval                                                            *)
(* ---------------------------------------------------------------------- *)
OpenInterval(lo, hi) == [Lower |-> lo, Upper |-> hi]

\* OpenInterval.Equals that compares the bounds with == only
OpenIntervalEquals_NoNaN(o, p) ==
    FEq(o.Lower, p.Lower) /\ FEq(o.Upper, p.Upper)

OpenIntervalEquals(o, p) ==
    /\ (IsNaN(o.Lower) /\ IsNaN(p.Lower)) \/ FEq(o.Lower, p.Lower)
    /\ (IsNaN(o.Upper) /\ IsNaN(p.Upper)) \/ FEq(o.Upper, p.Upper)

\* Intersection with <= in the guard: touching intervals become empty
Intersection_TouchingEmpty(o, p) ==
    IF (FLt(o.Upper, p.Lower) \/ FEq(o.Upper, p.Lower))
       \/ (FLt(p.Upper, o.Lower) \/ FEq(p.Upper, o.Lower))
    THEN OpenInterval(NaN, NaN)
    ELSE OpenInterval(MathMax(o.Lower, p.Lower), MathMin(o.Upper, p.Upper))

\* Intersection that tests only whether the receiver lies below the argument
Intersection_OneSidedGuard(o, p) ==
    IF FLt(o.Upper, p.Lower)
    THEN OpenInterval(NaN, NaN)
    ELSE OpenInterval(MathMax(o.Lower, p.Lower), MathMin(o.Upper, p.Upper))

\* Intersection with math.Min and math.Max exchanged: the hull of the two
Intersection_Hull(o, p) ==
    IF FLt(o.Upper, p.Lower) \/ FLt(p.Upper, o.Lower)
    THEN OpenInterval(NaN, NaN)
    ELSE OpenInterval(MathMin(o.Lower, p.Lower), MathMax(o.Upper, p.Upper))

Intersection(o, p) ==
    IF FLt(o.Upper, p.Lower) \/ FLt(p.Upper, o.Lower)
    THEN OpenInterval(NaN, NaN)
    ELSE LET q_start == MathMax(o.Lower, p.Lower)
             q_end == MathMin(o.Upper, p.Upper)
         IN  OpenInterval(q_start, q_end)

\* IsEmpty that requires both bounds to be NaN
IsEmpty_BothNaN(o) == IsNaN(o.Lower) /\ IsNaN(o.Upper)

IsEmpty(o) == IsNaN(o.Lower) \/ IsNaN(o.Upper)

(* ---------------------------------------------------------------------- *)
(* LineSegment                                                             *)
(* ---------------------------------------------------------------------- *)
LineSegment(p, q) == [P1 |-> p, P2 |-> q]

\* exact comparison of the four coordinates
LineSegmentEquals(l, m) ==
    /\ FEq(l.P1.X, m.P1.X)
    /\ FEq(l.P1.Y, m.P1.Y)
    /\ FEq(l.P2.X, m.P2.X)
    /\ FEq(l.P2.Y, m.P2.Y)

\* LineSegmentPlus that leaves P2 where it is
LineSegmentPlus_FirstOnly(l, p) == LineSegment(PointPlus(l.P1, p), l.P2)

LineSegmentPlus(l, p) == LineSegment(PointPlus(l.P1, p), PointPlus(l.P2, p))

LineSegmentMinus(l, p) == LineSegment(PointMinus(l.P1, p), PointMinus(l.P2, p))

LineSegmentAngle(l) == Atan2(FSub(l.P2.Y, l.P1.Y), FSub(l.P2.X, l.P1.X))

RotateAboutOrigin(l, angle) ==
    LineSegment(PointRotate(l.P1, angle), PointRotate(l.P2, angle))

\* almost_zero with the comparison turned round
almost_zero_Inverted(x, h2) ==
    /\ x.k = "fin"
    /\ x.n * x.n > float64EqualityThreshold * float64EqualityThreshold * h2 * x.d * x.d

\* math.Abs(x) < float64EqualityThreshold, for x carrying the scale sqrt(h2)
almost_zero(x, h2) ==
    /\ x.k = "fin"
    /\ x.n * x.n < float64EqualityThreshold * float64EqualityThreshold * h2 * x.d * x.d

sign_close_to_zero(x, h2) ==
    IF almost_zero(x, h2) THEN 0
    ELSE IF FLt(Fin(0), x) THEN 1
    ELSE IF FLt(x, Fin(0)) THEN -1
    ELSE 0

\* XInterceptScaled that, below the axis, returns the x of the vertex off it
XInterceptScaled_OffAxisVertex(l, h2) ==
    IF IsNaN(l.P1.X) \/ IsNaN(l.P2.X) THEN OpenInterval(NaN, NaN)
    ELSE
    LET sign_y1 == sign_close_to_zero(l.P1.Y, h2)
        sign_y2 == sign_close_to_zero(l.P2.Y, h2)
        sum_of_signs == sign_y1 + sign_y2
    IN  IF sign_y1 = 0 /\ sign_y2 = 0 THEN OpenInterval(l.P1.X, l.P2.X)
        ELSE IF AbsInt(sum_of_signs) = 2 THEN OpenInterval(NaN, NaN)
        ELSE IF sum_of_signs = -1
             THEN (IF sign_y1 < 0 THEN OpenInterval(l.P1.X, l.P1.X)
                   ELSE OpenInterval(l.P2.X, l.P2.X))
        ELSE IF sum_of_signs = 1
             THEN (IF sign_y2 > 0 THEN OpenInterval(l.P1.X, l.P1.X)
                   ELSE OpenInterval(l.P2.X, l.P2.X))
        ELSE LET x_intercept == PointXIntercept(l.P1, l.P2)
             IN  IF IsInf(x_intercept) THEN OpenInterval(NaN, NaN)
                 ELSE OpenInterval(x_intercept, x_intercept)

\* XInterceptScaled that tests the x of P1 only for NaN
XInterceptScaled_GuardP1Only(l, h2) ==
    IF IsNaN(l.P1.X) THEN OpenInterval(NaN, NaN)
    ELSE
    LET sign_y1 == sign_close_to_zero(l.P1.Y, h2)
        sign_y2 == sign_close_to_zero(l.P2.Y, h2)
        sum_of_signs == sign_y1 + sign_y2
    IN  IF sign_y1 = 0 /\ sign_y2 = 0 THEN OpenInterval(l.P1.X, l.P2.X)
        ELSE IF AbsInt(sum_of_signs) = 2 THEN OpenInterval(NaN, NaN)
        ELSE IF sum_of_signs = -1
             THEN (IF sign_y1 < 0 THEN OpenInterval(l.P2.X, l.P2.X)
                   ELSE OpenInterval(l.P1.X, l.P1.X))
        ELSE IF sum_of_signs = 1
             THEN (IF sign_y2 > 0 THEN OpenInterval(l.P1.X, l.P1.X)
                   ELSE OpenInterval(l.P2.X, l.P2.X))
        ELSE LET x_intercept == PointXIntercept(l.P1, l.P2)
             IN  IF IsInf(x_intercept) THEN OpenInterval(NaN, NaN)
                 ELSE OpenInterval(x_intercept, x_intercept)

\* LineSegment.XIntercept of a segment whose coordinates carry the scale
\* sqrt(h2)
XInterceptScaled(l, h2) ==
    IF IsNaN(l.P1.X) \/ IsNaN(l.P2.X) THEN OpenInterval(NaN, NaN)
    ELSE
    LET sign_y1 == sign_close_to_zero(l.P1.Y, h2)
        sign_y2 == sign_close_to_zero(l.P2.Y, h2)
        sum_of_signs == sign_y1 + sign_y2
    IN  IF sign_y1 = 0 /\ sign_y2 = 0 THEN OpenInterval(l.P1.X, l.P2.X)
        ELSE IF AbsInt(sum_of_signs) = 2 THEN OpenInterval(NaN, NaN)
        ELSE IF sum_of_signs = -1
             THEN (IF sign_y1 < 0 THEN OpenInterval(l.P2.X, l.P2.X)
                   ELSE OpenInterval(l.P1.X, l.P1.X))
        ELSE IF sum_of_signs = 1
             THEN (IF sign_y2 > 0 THEN OpenInterval(l.P1.X, l.P1.X)
                   ELSE OpenInterval(l.P2.X, l.P2.X))
        ELSE LET x_intercept == PointXIntercept(l.P1, l.P2)
             IN  IF IsInf(x_intercept) THEN OpenInterval(NaN, NaN)
                 ELSE OpenInterval(x_intercept, x_intercept)

\* LineSegment.XIntercept of a segment in the coordinates it was given in
LineSegmentXIntercept(l) == XInterceptScaled(l, 1)

\* IntersectsFrame that rotates by the angle of l1 instead of its negation
IntersectsFrame_PositiveAngle(a, b) ==
    LET l1_translated == LineSegmentMinus(a, a.P1)
        l2_translated == LineSegmentMinus(b, a.P1)
        angle_to_rotate_through == LineSegmentAngle(l1_translated)
        l1_rotated == RotateAboutOrigin(l1_translated, angle_to_rotate_through)
        l2_rotated == RotateAboutOrigin(l2_translated, angle_to_rotate_through)
    IN  [l1_rotated |-> l1_rotated,
         l2_rotated |-> l2_rotated,
         l2_x_intercept |-> XInterceptScaled(l2_rotated, Hyp2(angle_to_rotate_through)),
         l1_x_intercept |-> OpenInterval(l1_rotated.P1.X, l1_rotated.P2.X)]

\* the locals of Intersects: both segments in the frame of a, and the two
\* intervals on the x-axis of that frame
IntersectsFrame(a, b) ==
    LET l1_translated == LineSegmentMinus(a, a.P1)
        l2_translated == LineSegmentMinus(b, a.P1)
        angle_to_rotate_through == NegAngle(LineSegmentAngle(l1_translated))
        l1_rotated == RotateAboutOrigin(l1_translated, angle_to_rotate_through)
        l2_rotated == RotateAboutOrigin(l2_translated, angle_to_rotate_through)
    IN  [l1_rotated |-> l1_rotated,
         l2_rotated |-> l2_rotated,
         l2_x_intercept |-> XInterceptScaled(l2_rotated, Hyp2(angle_to_rotate_through)),
         l1_x_intercept |-> OpenInterval(l1_rotated.P1.X, l1_rotated.P2.X)]

Intersects(a, b) ==
    LET f == IntersectsFrame(a, b)
    IN  ~IsEmpty(Intersection(f.l1_x_intercept, f.l2_x_intercept))

(* ---------------------------------------------------------------------- *)
(* Point.XIntercept and LineSegment.XIntercept in float64 arithmetic:      *)
(* every operation rounds to the nearest float64 and overflows to an       *)
(* infinity, as the compiled code does.                                    *)
(* ---------------------------------------------------------------------- *)
\* float64(1e-9)
Threshold64 == F64Div(F64Make(1, 0), F64Make(1000000000, 0))

almost_zero64(x) == F64Lt(F64Abs(x), Threshold64)

sign_close_to_zero64(x) ==
    IF almost_zero64(x) THEN 0
    ELSE IF F64Lt(F64Make(0, 0), x) THEN 1
    ELSE IF F64Lt(x, F64Make(0, 0)) THEN -1
    ELSE 0

\* the result of Point.XIntercept: an infinite crossing is the sentinel +Inf
InfAsSentinel64(i) == IF IsInf(i) THEN PInf ELSE i

\* Point.XIntercept that adds the run to p.X
PointXIntercept64_PlusSlope(p, q) ==
    InfAsSentinel64(F64Add(p.X, F64Div(F64Mul(p.Y, F64Sub(q.X, p.X)), F64Sub(q.Y, p.Y))))

PointXIntercept64(p, q) ==
    InfAsSentinel64(F64Sub(p.X, F64Div(F64Mul(p.Y, F64Sub(q.X, p.X)), F64Sub(q.Y, p.Y))))

\* the last case of LineSegment.XIntercept: the interval of a crossing
CrossingInterval64(x_intercept) ==
    IF IsInf(x_intercept) THEN OpenInterval(NaN, NaN)
    ELSE OpenInterval(x_intercept, x_intercept)

\* the cases of LineSegment.XIntercept on the signs of the two y coordinates
XInterceptBySigns64(l, sign_y1, sign_y2) ==
    LET sum_of_signs == sign_y1 + sign_y2
    IN  IF sign_y1 = 0 /\ sign_y2 = 0 THEN OpenInterval(l.P1.X, l.P2.X)
        ELSE IF AbsInt(sum_of_signs) = 2 THEN OpenInterval(NaN, NaN)
        ELSE IF sum_of_signs = -1
             THEN (IF sign_y1 < 0 THEN OpenInterval(l.P2.X, l.P2.X)
                   ELSE OpenInterval(l.P1.X, l.P1.X))
        ELSE IF sum_of_signs = 1
             THEN (IF sign_y2 > 0 THEN OpenInterval(l.P1.X, l.P1.X)
                   ELSE OpenInterval(l.P2.X, l.P2.X))
        ELSE CrossingInterval64(PointXIntercept64(l.P1, l.P2))

LineSegmentXIntercept64(l) ==
    IF IsNaN(l.P1.X) \/ IsNaN(l.P2.X) THEN OpenInterval(NaN, NaN)
    ELSE XInterceptBySigns64(l, sign_close_to_zero64(l.P1.Y),
                             sign_close_to_zero64(l.P2.Y))

(* ---------------------------------------------------------------------- *)
(* Intersects in float64 arithmetic, for a first segment that is           *)
(* horizontal and given left end first.  Its angle is then                 *)
(* math.Atan2(0, x) with x >= 0, which is exactly 0, and math.Sin and       *)
(* math.Cos of 0 are exactly 0 and 1; the float64 results of these          *)
(* functions for other angles are not modelled.                            *)
(* ---------------------------------------------------------------------- *)
PointPlus64(p, q) == Point(F64Add(p.X, q.X), F64Add(p.Y, q.Y))

PointMinus64(p, q) == Point(F64Sub(p.X, q.X), F64Sub(p.Y, q.Y))

LineSegmentPlus64(l, p) == LineSegment(PointPlus64(l.P1, p), PointPlus64(l.P2, p))

LineSegmentMinus64(l, p) == LineSegment(PointMinus64(l.P1, p), PointMinus64(l.P2, p))

\* an angle other than +0 and -0
AngleNotModelled == [k |-> "angle"]

\* math.Atan2(y, x): Atan2(+0, x) = +0 and Atan2(-0, x) = -0 for x >= +0
Atan2Of64(y, x) ==
    IF IsNaN(y) \/ IsNaN(x) THEN NaN
    ELSE IF ~IsInf(y) /\ F64IsZero(y) /\ F64Sign(x) > 0 THEN y
    ELSE AngleNotModelled

\* math.Sin(a): Sin(+0) = +0 and Sin(-0) = -0
Sin64(a) ==
    IF IsNaN(a) THEN NaN
    ELSE IF a # AngleNotModelled /\ F64IsZero(a) THEN a
    ELSE AngleNotModelled

\* math.Cos(a): Cos(0) = 1
Cos64(a) ==
    IF IsNaN(a) THEN NaN
    ELSE IF a # AngleNotModelled /\ F64IsZero(a) THEN F64Make(1, 0)
    ELSE AngleNotModelled

PointRotate64(p, angle) ==
    LET s == Sin64(angle)
        c == Cos64(angle)
    IN  Point(F64Sub(F64Mul(c, p.X), F64Mul(s, p.Y)),
              F64Add(F64Mul(s, p.X), F64Mul(c, p.Y)))

LineSegmentAngle64(l) == Atan2Of64(F64Sub(l.P2.Y, l.P1.Y), F64Sub(l.P2.X, l.P1.X))

RotateAboutOrigin64(l, angle) ==
    LineSegment(PointRotate64(l.P1, angle), PointRotate64(l.P2, angle))

\* math.Max: +Inf wins over NaN, then NaN, then the larger operand, +0 over -0
MathMax64(x, y) ==
    IF x = PInf \/ y = PInf THEN PInf
    ELSE IF IsNaN(x) \/ IsNaN(y) THEN NaN
    ELSE IF F64Eq(x, y) /\ ~IsInf(x) /\ F64IsZero(x) THEN (IF x.s > 0 THEN x ELSE y)
    ELSE IF F64Lt(y, x) THEN x ELSE y

\* math.Min: -Inf wins over NaN, then NaN, then the smaller operand, -0 over +0
MathMin64(x, y) ==
    IF x = NInf \/ y = NInf THEN NInf
    ELSE IF IsNaN(x) \/ IsNaN(y) THEN NaN
    ELSE IF F64Eq(x, y) /\ ~IsInf(x) /\ F64IsZero(x) THEN (IF x.s < 0 THEN x ELSE y)
    ELSE IF F64Lt(x, y) THEN x ELSE y

Intersection64(o, p) ==
    IF F64Lt(o.Upper, p.Lower) \/ F64Lt(p.Upper, o.Lower)
    THEN OpenInterval(NaN, NaN)
    ELSE LET q_start == MathMax64(o.Lower, p.Lower)
             q_end == MathMin64(o.Upper, p.Upper)
         IN  OpenInterval(q_start, q_end)

\* the end of Intersects: the x-extent of the rotated first segment against
\* the x-intercept of the rotated second one
IntersectsRotated64(l1_rotated, l2_rotated) ==
    LET l2_x_intercept == LineSegmentXIntercept64(l2_rotated)
        l1_x_intercept == OpenInterval(l1_rotated.P1.X, l1_rotated.P2.X)
    IN  ~IsEmpty(Intersection64(l1_x_intercept, l2_x_intercept))

\* Intersects from the rotation on
IntersectsRotating64(l1_translated, l2_translated, angle_to_rotate_through) ==
    IntersectsRotated64(RotateAboutOrigin64(l1_translated, angle_to_rotate_through),
                        RotateAboutOrigin64(l2_translated, angle_to_rotate_through))

\* Intersects after the translation
IntersectsTranslated64(l1_translated, l2_translated) ==
    IntersectsRotating64(l1_translated, l2_translated,
                         F64Neg(LineSegmentAngle64(l1_translated)))

\* Intersects that leaves both segments where they are before it rotates
Intersects64_NoTranslate(a, b) == IntersectsTranslated64(a, b)

Intersects64(a, b) ==
    IntersectsTranslated64(LineSegmentMinus64(a, a.P1), LineSegmentMinus64(b, a.P1))

(* ---------------------------------------------------------------------- *)
(* Triangle                                                                *)
(* ---------------------------------------------------------------------- *)
Triangle(a, b, c) == [P1 |-> a, P2 |-> b, P3 |-> c]

\* Triangle.Equals that leaves out the ordering u.P3, u.P1, u.P2
TriangleEquals_FiveOrderings(t, u) ==
    \/ (PointEquals(t.P1, u.P1) /\ PointEquals(t.P2, u.P2) /\ PointEquals(t.P3, u.P3))
    \/ (PointEquals(t.P1, u.P1) /\ PointEquals(t.P2, u.P3) /\ PointEquals(t.P3, u.P2))
    \/ (PointEquals(t.P1, u.P2) /\ PointEquals(t.P2, u.P1) /\ PointEquals(t.P3, u.P3))
    \/ (PointEquals(t.P1, u.P2) /\ PointEquals(t.P2, u.P3) /\ PointEquals(t.P3, u.P1))
    \/ (PointEquals(t.P1, u.P3) /\ PointEquals(t.P2, u.P2) /\ PointEquals(t.P3, u.P1))

TriangleEquals(t, u) ==
    \/ (PointEquals(t.P1, u.P1) /\ PointEquals(t.P2, u.P2) /\ PointEquals(t.P3, u.P3))
    \/ (PointEquals(t.P1, u.P1) /\ PointEquals(t.P2, u.P3) /\ PointEquals(t.P3, u.P2))
    \/ (PointEquals(t.P1, u.P2) /\ PointEquals(t.P2, u.P1) /\ PointEquals(t.P3, u.P3))
    \/ (PointEquals(t.P1, u.P2) /\ PointEquals(t.P2, u.P3) /\ PointEquals(t.P3, u.P1))
    \/ (PointEquals(t.P1, u.P3) /\ PointEquals(t.P2, u.P1) /\ PointEquals(t.P3, u.P2))
    \/ (PointEquals(t.P1, u.P3) /\ PointEquals(t.P2, u.P2) /\ PointEquals(t.P3, u.P1))

\* Triangle.Area without math.Abs: the signed area
TriangleArea_Signed(t) ==
    FMul(Frac(1, 2),
         FAdd(FAdd(FMul(t.P1.X, FSub(t.P2.Y, t.P3.Y)),
                   FMul(t.P2.X, FSub(t.P3.Y, t.P1.Y))),
              FMul(t.P3.X, FSub(t.P1.Y, t.P2.Y))))

TriangleArea(t) ==
    FMul(Frac(1, 2),
         FAbs(FAdd(FAdd(FMul(t.P1.X, FSub(t.P2.Y, t.P3.Y)),
                        FMul(t.P2.X, FSub(t.P3.Y, t.P1.Y))),
                   FMul(t.P3.X, FSub(t.P1.Y, t.P2.Y)))))

(* ---------------------------------------------------------------------- *)
(* Triangle.Equals and Triangle.Area in float64 arithmetic, each product   *)
(* and sum rounded on its own                                              *)
(* ---------------------------------------------------------------------- *)
PointEquals64(p, q) == F64Eq(p.X, q.X) /\ F64Eq(p.Y, q.Y)

\* Triangle.Equals that leaves out the ordering u.P3, u.P1, u.P2
TriangleEquals64_FiveOrderings(t, u) ==
    \/ (PointEquals64(t.P1, u.P1) /\ PointEquals64(t.P2, u.P2) /\ PointEquals64(t.P3, u.P3))
    \/ (PointEquals64(t.P1, u.P1) /\ PointEquals64(t.P2, u.P3) /\ PointEquals64(t.P3, u.P2))
    \/ (PointEquals64(t.P1, u.P2) /\ PointEquals64(t.P2, u.P1) /\ PointEquals64(t.P3, u.P3))
    \/ (PointEquals64(t.P1, u.P2) /\ PointEquals64(t.P2, u.P3) /\ PointEquals64(t.P3, u.P1))
    \/ (PointEquals64(t.P1, u.P3) /\ PointEquals64(t.P2, u.P2) /\ PointEquals64(t.P3, u.P1))

TriangleEquals64(t, u) ==
    \/ (PointEquals64(t.P1, u.P1) /\ PointEquals64(t.P2, u.P2) /\ PointEquals64(t.P3, u.P3))
    \/ (PointEquals64(t.P1, u.P1) /\ PointEquals64(t.P2, u.P3) /\ PointEquals64(t.P3, u.P2))
    \/ (PointEquals64(t.P1, u.P2) /\ PointEquals64(t.P2, u.P1) /\ PointEquals64(t.P3, u.P3))
    \/ (PointEquals64(t.P1, u.P2) /\ PointEquals64(t.P2, u.P3) /\ PointEquals64(t.P3, u.P1))
    \/ (PointEquals64(t.P1, u.P3) /\ PointEquals64(t.P2, u.P1) /\ PointEquals64(t.P3, u.P2))
    \/ (PointEquals64(t.P1, u.P3) /\ PointEquals64(t.P2, u.P2) /\ PointEquals64(t.P3, u.P1))

TriangleArea64(t) ==
    F64Mul(F64Make(1, -1),
           F64Abs(F64Add(F64Add(F64Mul(t.P1.X, F64Sub(t.P2.Y, t.P3.Y)),
                                F64Mul(t.P2.X, F64Sub(t.P3.Y, t.P1.Y))),
                         F64Mul(t.P3.X, F64Sub(t.P1.Y, t.P2.Y)))))

\* the six orderings of the vertices of t
TrianglePerm(t, i) ==
    CASE i = 1 -> Triangle(t.P1, t.P2, t.P3)
      [] i = 2 -> Triangle(t.P1, t.P3, t.P2)
      [] i = 3 -> Triangle(t.P2, t.P1, t.P3)
      [] i = 4 -> Triangle(t.P2, t.P3, t.P1)
      [] i = 5 -> Triangle(t.P3, t.P1, t.P2)
      [] i = 6 -> Triangle(t.P3, t.P2, t.P1)

(* ---------------------------------------------------------------------- *)
(* Inputs                                                                  *)
(* ---------------------------------------------------------------------- *)
Coords == {Fin(n) : n \in 0..MaxCoord}

Points == {Point(x, y) : x \in Coords, y \in Coords}

Segments == {LineSegment(p, q) : p \in Points, q \in Points}

Floats == {NaN, PInf, NInf} \cup {Fin(n) : n \in 0..MaxBound}

Intervals == {OpenInterval(lo, hi) : lo \in Floats, hi \in Floats}

NoSegment == LineSegment(Point(Fin(0), Fin(0)), Point(Fin(0), Fin(0)))

NoInterval == OpenInterval(NaN, NaN)

NoPoint == Point(Fin(0), Fin(0))

NoPoints ==
    /\ pt1 = NoPoint
    /\ pt2 = NoPoint
    /\ scal = Fin(0)
    /\ theta = Dir(1, 0)

NoTriangles ==
    /\ tri1 = Triangle(NoPoint, NoPoint, NoPoint)
    /\ tri2 = Triangle(NoPoint, NoPoint, NoPoint)

\* the results of the calls on segments and intervals
results == <<res, l1x, l2x, q12, q21, q11, emp>>

\* out maps the label of a call to the value it returned
NoOut == [x \in {} |-> FALSE]

Put(o, label, v) ==
    [x \in DOMAIN o \cup {label} |-> IF x = label THEN v ELSE o[x]]

NoResults ==
    /\ done = {}
    /\ out = NoOut
    /\ res = FALSE
    /\ l1x = NoInterval
    /\ l2x = NoInterval
    /\ q12 = NoInterval
    /\ q21 = NoInterval
    /\ q11 = NoInterval
    /\ emp = FALSE

(* ---------------------------------------------------------------------- *)
(* Calls on two line segments l1, l2                                       *)
(* ---------------------------------------------------------------------- *)
Init ==
    /\ l1 \in Segments
    /\ l2 \in Segments
    /\ o1 = NoInterval
    /\ o2 = NoInterval
    /\ NoPoints
    /\ NoTriangles
    /\ NoResults

\* res := l1.Intersects(l2), with the two intervals it compares
CallIntersects ==
    /\ "Intersects" \notin done
    /\ done' = done \cup {"Intersects"}
    /\ res' = Intersects(l1, l2)
    /\ l1x' = IntersectsFrame(l1, l2).l1_x_intercept
    /\ l2x' = IntersectsFrame(l1, l2).l2_x_intercept
    /\ UNCHANGED <<inputs, out, q12, q21, q11, emp>>

Next == CallIntersects

Spec == Init /\ [][Next]_vars

(* ---------------------------------------------------------------------- *)
(* Calls on two intervals o1, o2                                           *)
(* ---------------------------------------------------------------------- *)
InitInterval ==
    /\ l1 = NoSegment
    /\ l2 = NoSegment
    /\ NoPoints
    /\ NoTriangles
    /\ o1 \in Intervals
    /\ o2 \in Intervals
    /\ NoResults

\* q12 := o1.Intersection(o2)
CallIntersection12 ==
    /\ "Intersection12" \notin done
    /\ done' = done \cup {"Intersection12"}
    /\ q12' = Intersection(o1, o2)
    /\ UNCHANGED <<inputs, out, res, l1x, l2x, q21, q11, emp>>

\* q21 := o2.Intersection(o1)
CallIntersection21 ==
    /\ "Intersection21" \notin done
    /\ done' = done \cup {"Intersection21"}
    /\ q21' = Intersection(o2, o1)
    /\ UNCHANGED <<inputs, out, res, l1x, l2x, q12, q11, emp>>

\* q11 := o1.Intersection(o1)
CallIntersectionSelf ==
    /\ "IntersectionSelf" \notin done
    /\ done' = done \cup {"IntersectionSelf"}
    /\ q11' = Intersection(o1, o1)
    /\ UNCHANGED <<inputs, out, res, l1x, l2x, q12, q21, emp>>

\* emp := o1.IsEmpty()
CallIsEmpty ==
    /\ "IsEmpty" \notin done
    /\ done' = done \cup {"IsEmpty"}
    /\ emp' = IsEmpty(o1)
    /\ UNCHANGED <<inputs, out, res, l1x, l2x, q12, q21, q11>>

\* out["Equals12"] := o1.Equals(o2)
CallEquals12 ==
    /\ "Equals12" \notin done
    /\ done' = done \cup {"Equals12"}
    /\ out' = Put(out, "Equals12", OpenIntervalEquals(o1, o2))
    /\ UNCHANGED <<inputs, results>>

\* out["EqualsSelf"] := o1.Equals(o1)
CallEqualsSelf ==
    /\ "EqualsSelf" \notin done
    /\ done' = done \cup {"EqualsSelf"}
    /\ out' = Put(out, "EqualsSelf", OpenIntervalEquals(o1, o1))
    /\ UNCHANGED <<inputs, results>>

NextInterval ==
    \/ CallIntersection12
    \/ CallIntersection21
    \/ CallIntersectionSelf
    \/ CallIsEmpty
    \/ CallEquals12
    \/ CallEqualsSelf

SpecInterval == InitInterval /\ [][NextInterval]_vars

(* ---------------------------------------------------------------------- *)
(* Calls on two triangles tri1, tri2                                       *)
(* ---------------------------------------------------------------------- *)
TrianglePoints ==
    {Point(Fin(x), Fin(y)) : x \in 0..MaxTriCoord, y \in 0..1}
        \cup {Point(NaN, Fin(0))}

Triangles ==
    {Triangle(a, b, c) : a \in TrianglePoints, b \in TrianglePoints,
                         c \in TrianglePoints}

InitTriangle ==
    /\ l1 = NoSegment
    /\ l2 = NoSegment
    /\ o1 = NoInterval
    /\ o2 = NoInterval
    /\ NoPoints
    /\ tri1 \in Triangles
    /\ tri2 \in Triangles
    /\ NoResults

\* out["TriangleEquals"] := tri1.Equals(tri2)
CallTriangleEquals ==
    /\ "TriangleEquals" \notin done
    /\ done' = done \cup {"TriangleEquals"}
    /\ out' = Put(out, "TriangleEquals", TriangleEquals(tri1, tri2))
    /\ UNCHANGED <<inputs, results>>

\* out["TriangleEqualsReordered"] := the values of tri1'.Equals(tri2') over
\* all orderings tri1' of tri1 and tri2' of tri2
CallTriangleEqualsReordered ==
    /\ "TriangleEqualsReordered" \notin done
    /\ done' = done \cup {"TriangleEqualsReordered"}
    /\ out' = Put(out, "TriangleEqualsReordered",
                  {TriangleEquals(TrianglePerm(tri1, i), TrianglePerm(tri2, j)) :
                       i \in 1..6, j \in 1..6})
    /\ UNCHANGED <<inputs, results>>

\* out["Area"] := tri1.Area()
CallArea ==
    /\ "Area" \notin done
    /\ done' = done \cup {"Area"}
    /\ out' = Put(out, "Area", TriangleArea(tri1))
    /\ UNCHANGED <<inputs, results>>

NextTriangle ==
    \/ CallTriangleEquals
    \/ CallTriangleEqualsReordered
    \/ CallArea

SpecTriangle == InitTriangle /\ [][NextTriangle]_vars

(* ---------------------------------------------------------------------- *)
(* Calls on two points pt1, pt2                                            *)
(* ---------------------------------------------------------------------- *)
SignedCoords == {Fin(n) : n \in -MaxPointCoord..MaxPointCoord}

SignedPoints == {Point(x, y) : x \in SignedCoords, y \in SignedCoords}

InitPoint ==
    /\ l1 = NoSegment
    /\ l2 = NoSegment
    /\ o1 = NoInterval
    /\ o2 = NoInterval
    /\ pt1 \in SignedPoints
    /\ pt2 \in SignedPoints
    /\ scal = Fin(0)
    /\ theta = Dir(1, 0)
    /\ NoTriangles
    /\ NoResults

\* out["PointXIntercept"] := pt1.XIntercept(pt2)
CallPointXIntercept ==
    /\ "PointXIntercept" \notin done
    /\ done' = done \cup {"PointXIntercept"}
    /\ out' = Put(out, "PointXIntercept", PointXIntercept(pt1, pt2))
    /\ UNCHANGED <<inputs, results>>

NextPoint == CallPointXIntercept

SpecPoint == InitPoint /\ [][NextPoint]_vars

(* ---------------------------------------------------------------------- *)
(* Calls on one point pt1, a scalar scal and an angle theta                *)
(* ---------------------------------------------------------------------- *)
Scalars == {Fin(n) : n \in -MaxScalar..MaxScalar}

Angles == {Dir(x, y) : x \in -MaxDir..MaxDir, y \in -MaxDir..MaxDir}

InitVector ==
    /\ l1 = NoSegment
    /\ l2 = NoSegment
    /\ o1 = NoInterval
    /\ o2 = NoInterval
    /\ pt1 \in SignedPoints
    /\ pt2 = NoPoint
    /\ scal \in Scalars
    /\ theta \in Angles
    /\ NoTriangles
    /\ NoResults

\* CallTimes on a pointer receiver that scales the point it is called on
CallTimes_InPlace ==
    /\ "Times" \notin done
    /\ done' = done \cup {"Times"}
    /\ pt1' = PointTimes(pt1, scal)
    /\ out' = Put(out, "Times", pt1')
    /\ UNCHANGED <<l1, l2, o1, o2, pt2, scal, theta, tri1, tri2, results>>

\* out["Times"] := pt1.Times(scal)
CallTimes ==
    /\ "Times" \notin done
    /\ done' = done \cup {"Times"}
    /\ out' = Put(out, "Times", PointTimes(pt1, scal))
    /\ UNCHANGED <<inputs, results>>

\* out["Magnitude"] := pt1.Magnitude()
CallMagnitude ==
    /\ "Magnitude" \notin done
    /\ done' = done \cup {"Magnitude"}
    /\ out' = Put(out, "Magnitude", Magnitude(pt1))
    /\ UNCHANGED <<inputs, results>>

\* out["Rotate"] := pt1.Rotate(theta)
CallRotate ==
    /\ "Rotate" \notin done
    /\ done' = done \cup {"Rotate"}
    /\ out' = Put(out, "Rotate", PointRotate(pt1, theta))
    /\ UNCHANGED <<inputs, results>>

\* out["Angle"] := pt1.Angle()
CallAngle ==
    /\ "Angle" \notin done
    /\ done' = done \cup {"Angle"}
    /\ out' = Put(out, "Angle", PointAngle(pt1))
    /\ UNCHANGED <<inputs, results>>

NextVector ==
    \/ CallTimes
    \/ CallMagnitude
    \/ CallRotate
    \/ CallAngle

SpecVector == InitVector /\ [][NextVector]_vars

(* ---------------------------------------------------------------------- *)
(* Translations of one segment l1 by a point pt1                           *)
(* ---------------------------------------------------------------------- *)
AnyCoords == {Fin(n) : n \in 0..MaxSegCoord} \cup {NaN, PInf}

AnyPoints == {Point(x, y) : x \in AnyCoords, y \in AnyCoords}

AnySegments == {LineSegment(p, q) : p \in AnyPoints, q \in AnyPoints}

InitTranslate ==
    /\ l1 \in AnySegments
    /\ l2 = NoSegment
    /\ o1 = NoInterval
    /\ o2 = NoInterval
    /\ pt1 \in SignedPoints
    /\ pt2 = NoPoint
    /\ scal = Fin(0)
    /\ theta = Dir(1, 0)
    /\ NoTriangles
    /\ NoResults

\* out["SegmentPlus"] := l1.Plus(pt1)
CallSegmentPlus ==
    /\ "SegmentPlus" \notin done
    /\ done' = done \cup {"SegmentPlus"}
    /\ out' = Put(out, "SegmentPlus", LineSegmentPlus(l1, pt1))
    /\ UNCHANGED <<inputs, results>>

\* out["SegmentMinus"] := l1.Minus(pt1)
CallSegmentMinus ==
    /\ "SegmentMinus" \notin done
    /\ done' = done \cup {"SegmentMinus"}
    /\ out' = Put(out, "SegmentMinus", LineSegmentMinus(l1, pt1))
    /\ UNCHANGED <<inputs, results>>

NextTranslate ==
    \/ CallSegmentPlus
    \/ CallSegmentMinus

SpecTranslate == InitTranslate /\ [][NextTranslate]_vars

(* ---------------------------------------------------------------------- *)
(* The x-intercept of one segment l1, met with an interval o1              *)
(* ---------------------------------------------------------------------- *)
AxisPoints ==
    {Point(x, y) : x \in {Fin(n) : n \in -MaxAxisX..MaxAxisX} \cup {NaN},
                   y \in {Frac(n, 2) : n \in -2 * MaxAxisY..2 * MaxAxisY}
                             \cup {NaN, PInf}}

AxisSegments == {LineSegment(p, q) : p \in AxisPoints, q \in AxisPoints}

\* the intervals with Lower <= Upper
WellOrdered ==
    {o \in Intervals : ~IsNaN(o.Lower) /\ ~IsNaN(o.Upper) /\ ~FLt(o.Upper, o.Lower)}

\* l with its endpoints exchanged
Reversed(l) == LineSegment(l.P2, l.P1)

InitAxis ==
    /\ l1 \in AxisSegments
    /\ l2 = NoSegment
    /\ o1 \in WellOrdered
    /\ o2 = NoInterval
    /\ NoPoints
    /\ NoTriangles
    /\ NoResults

\* out["XIntercept"] := l1.XIntercept()
CallXIntercept ==
    /\ "XIntercept" \notin done
    /\ done' = done \cup {"XIntercept"}
    /\ out' = Put(out, "XIntercept", LineSegmentXIntercept(l1))
    /\ UNCHANGED <<inputs, results>>

\* out["IntersectionAxis"] := o1.Intersection(l1.XIntercept())
CallIntersectionAxis ==
    /\ "IntersectionAxis" \notin done
    /\ done' = done \cup {"IntersectionAxis"}
    /\ out' = Put(out, "IntersectionAxis",
                  Intersection(o1, LineSegmentXIntercept(l1)))
    /\ UNCHANGED <<inputs, results>>

\* out["IntersectionAxisReversed"] := o1.Intersection(LineSegment{l1.P2, l1.P1}.XIntercept())
CallIntersectionAxisReversed ==
    /\ "IntersectionAxisReversed" \notin done
    /\ done' = done \cup {"IntersectionAxisReversed"}
    /\ out' = Put(out, "IntersectionAxisReversed",
                  Intersection(o1, LineSegmentXIntercept(Reversed(l1))))
    /\ UNCHANGED <<inputs, results>>

NextAxis ==
    \/ CallXIntercept
    \/ CallIntersectionAxis
    \/ CallIntersectionAxisReversed

SpecAxis == InitAxis /\ [][NextAxis]_vars

(* ---------------------------------------------------------------------- *)
(* Sequences of calls of the operations of all four types on the same      *)
(* values: every method has a value receiver and value parameters, and     *)
(* returns a new value                                                     *)
(* ---------------------------------------------------------------------- *)
FramePoints == {Point(Fin(1), Fin(0)), Point(Fin(-1), Fin(2))}

FrameSegments == {LineSegment(a, b) : a \in FramePoints, b \in FramePoints}

FrameIntervals == {OpenInterval(Fin(0), Fin(1)), OpenInterval(NaN, NaN)}

InitFrame ==
    /\ l1 \in FrameSegments
    /\ l2 = LineSegment(Point(Fin(0), Fin(0)), Point(Fin(0), Fin(2)))
    /\ o1 \in FrameIntervals
    /\ o2 = OpenInterval(Fin(1), Fin(2))
    /\ pt1 \in FramePoints
    /\ pt2 = Point(Fin(1), Fin(1))
    /\ scal = Fin(2)
    /\ theta = Dir(0, 1)
    /\ tri1 = Triangle(Point(Fin(0), Fin(0)), Point(Fin(1), Fin(0)), Point(Fin(0), Fin(1)))
    /\ tri2 = Triangle(Point(Fin(0), Fin(1)), Point(Fin(0), Fin(0)), Point(Fin(1), Fin(0)))
    /\ NoResults

\* out["PointPlus"] := pt1.Plus(pt2)
CallPointPlus ==
    /\ "PointPlus" \notin done
    /\ done' = done \cup {"PointPlus"}
    /\ out' = Put(out, "PointPlus", PointPlus(pt1, pt2))
    /\ UNCHANGED <<inputs, results>>

\* out["PointMinus"] := pt1.Minus(pt2)
CallPointMinus ==
    /\ "PointMinus" \notin done
    /\ done' = done \cup {"PointMinus"}
    /\ out' = Put(out, "PointMinus", PointMinus(pt1, pt2))
    /\ UNCHANGED <<inputs, results>>

\* out["Divide"] := pt1.Divide(scal)
CallDivide ==
    /\ "Divide" \notin done
    /\ done' = done \cup {"Divide"}
    /\ out' = Put(out, "Divide", PointDivide(pt1, scal))
    /\ UNCHANGED <<inputs, results>>

\* out["RotateAboutOrigin"] := l1.RotateAboutOrigin(theta)
CallRotateAboutOrigin ==
    /\ "RotateAboutOrigin" \notin done
    /\ done' = done \cup {"RotateAboutOrigin"}
    /\ out' = Put(out, "RotateAboutOrigin", RotateAboutOrigin(l1, theta))
    /\ UNCHANGED <<inputs, results>>

NextFrame ==
    \/ CallPointPlus
    \/ CallPointMinus
    \/ CallTimes
    \/ CallDivide
    \/ CallRotate
    \/ CallRotateAboutOrigin
    \/ CallXIntercept
    \/ CallIntersection12
    \/ CallIntersects
    \/ CallEquals12
    \/ CallArea

SpecFrame == InitFrame /\ [][NextFrame]_vars

(* ---------------------------------------------------------------------- *)
(* The x-intercept of one segment l1 with float64 coordinates              *)
(* ---------------------------------------------------------------------- *)
\* 1 + 3 * 2^-52, three float64 above 1
OnePlus3Ulp == F64Add(F64Make(1, 0), F64Make(3, -52))

\* 2^1023, half the range of float64
Huge64 == F64Make(1, 1023)

CrossXs == {F64Make(n, 0) : n \in -MaxCrossX..1} \cup {OnePlus3Ulp, Huge64}

\* 2^-31 is within the threshold of zero, 2^-29 is not
CrossYs ==
    {F64Make(n, 0) : n \in -MaxCrossY..1}
        \cup {F64Make(-1, 30), F64Make(1, -31), F64Make(1, -29)}

CrossPoints == {Point(x, y) : x \in CrossXs, y \in CrossYs}

CrossSegments == {LineSegment(p, q) : p \in CrossPoints, q \in CrossPoints}

InitCrossing ==
    /\ l1 \in CrossSegments
    /\ l2 = NoSegment
    /\ o1 = NoInterval
    /\ o2 = NoInterval
    /\ NoPoints
    /\ NoTriangles
    /\ NoResults

\* out["PointXIntercept64"] := l1.P1.XIntercept(l1.P2)
CallPointXIntercept64 ==
    /\ "PointXIntercept64" \notin done
    /\ done' = done \cup {"PointXIntercept64"}
    /\ out' = Put(out, "PointXIntercept64", PointXIntercept64(l1.P1, l1.P2))
    /\ UNCHANGED <<inputs, results>>

\* out["XIntercept64"] := l1.XIntercept()
CallXIntercept64 ==
    /\ "XIntercept64" \notin done
    /\ done' = done \cup {"XIntercept64"}
    /\ out' = Put(out, "XIntercept64", LineSegmentXIntercept64(l1))
    /\ UNCHANGED <<inputs, results>>

NextCrossing ==
    \/ CallPointXIntercept64
    \/ CallXIntercept64

SpecCrossing == InitCrossing /\ [][NextCrossing]_vars

(* ---------------------------------------------------------------------- *)
(* Intersects called on two segments in both orders                        *)
(* ---------------------------------------------------------------------- *)
PairPoints == {Point(Fin(x), Fin(y)) : x \in 0..MaxPairX, y \in 0..MaxPairY}

PairSegments == {LineSegment(p, q) : p \in PairPoints, q \in PairPoints}

InitPair ==
    /\ l1 \in PairSegments
    /\ l2 \in PairSegments
    /\ o1 = NoInterval
    /\ o2 = NoInterval
    /\ NoPoints
    /\ NoTriangles
    /\ NoResults

\* out["IntersectsSwapped"] := l2.Intersects(l1)
CallIntersectsSwapped ==
    /\ "IntersectsSwapped" \notin done
    /\ done' = done \cup {"IntersectsSwapped"}
    /\ out' = Put(out, "IntersectsSwapped", Intersects(l2, l1))
    /\ UNCHANGED <<inputs, results>>

NextPair ==
    \/ CallIntersects
    \/ CallIntersectsSwapped

SpecPair == InitPair /\ [][NextPair]_vars

(* ---------------------------------------------------------------------- *)
(* Intersects called on segments that may have NaN coordinates             *)
(* ---------------------------------------------------------------------- *)
NaNCoords == {Fin(n) : n \in 0..MaxNaNCoord} \cup {NaN}

NaNPoints == {Point(x, y) : x \in NaNCoords, y \in NaNCoords}

NaNSegments == {LineSegment(p, q) : p \in NaNPoints, q \in NaNPoints}

InitNaN ==
    /\ l1 \in NaNSegments
    /\ l2 \in NaNSegments
    /\ o1 = NoInterval
    /\ o2 = NoInterval
    /\ NoPoints
    /\ NoTriangles
    /\ NoResults

SpecNaN == InitNaN /\ [][Next]_vars

(* ---------------------------------------------------------------------- *)
(* A chain of Intersection calls: each result is an operand of the next    *)
(* call, with a well-ordered interval as the other operand; o1 and o2 are   *)
(* the operands of the last call and q12 its result                        *)
(* ---------------------------------------------------------------------- *)
InitChain ==
    /\ l1 = NoSegment
    /\ l2 = NoSegment
    /\ NoPoints
    /\ NoTriangles
    /\ NoResults
    /\ o1 = NoInterval
    /\ o2 \in WellOrdered

\* q12 := o1.Intersection(o2) on two well-ordered intervals
CallIntersectionFirst ==
    /\ done = {}
    /\ \E p \in WellOrdered :
        /\ o1' = p
        /\ q12' = Intersection(p, o2)
    /\ done' = {"Chain"}
    /\ UNCHANGED <<l1, l2, o2, pt1, pt2, scal, theta, tri1, tri2,
                   out, res, l1x, l2x, q21, q11, emp>>

\* q12 := q12.Intersection(p)
CallIntersectionLeft ==
    /\ done = {"Chain"}
    /\ \E p \in WellOrdered :
        /\ o1' = q12
        /\ o2' = p
        /\ q12' = Intersection(q12, p)
    /\ UNCHANGED <<l1, l2, pt1, pt2, scal, theta, tri1, tri2,
                   done, out, res, l1x, l2x, q21, q11, emp>>

\* q12 := p.Intersection(q12)
CallIntersectionRight ==
    /\ done = {"Chain"}
    /\ \E p \in WellOrdered :
        /\ o1' = p
        /\ o2' = q12
        /\ q12' = Intersection(p, q12)
    /\ UNCHANGED <<l1, l2, pt1, pt2, scal, theta, tri1, tri2,
                   done, out, res, l1x, l2x, q21, q11, emp>>

NextChain ==
    \/ CallIntersectionFirst
    \/ CallIntersectionLeft
    \/ CallIntersectionRight

SpecChain == InitChain /\ [][NextChain]_vars

(* ---------------------------------------------------------------------- *)
(* Calls on two triangles tri1, tri2 with float64 coordinates              *)
(* ---------------------------------------------------------------------- *)
\* 1 + 2^-52, the float64 after 1
OnePlusUlp == F64Add(F64Make(1, 0), F64Make(1, -52))

TrianglePoints64 ==
    {Point(F64Make(1, 0), F64Make(n, 0)) : n \in 0..MaxTri64Y}
        \cup {Point(F64Make(3, 0), OnePlusUlp), Point(PInf, F64Make(0, 0))}

Triangles64 ==
    {Triangle(a, b, c) : a \in TrianglePoints64, b \in TrianglePoints64,
                         c \in TrianglePoints64}

InitTriangle64 ==
    /\ l1 = NoSegment
    /\ l2 = NoSegment
    /\ o1 = NoInterval
    /\ o2 = NoInterval
    /\ NoPoints
    /\ tri1 \in Triangles64
    /\ tri2 \in Triangles64
    /\ NoResults

\* out["Equals64"] := the results of Equals on tri1 and itself, on tri1 and
\* tri2 in both orders, and on each of them and every third triangle w, kept
\* as the set of the w where it is true
CallTriangleEquals64 ==
    /\ "Equals64" \notin done
    /\ done' = done \cup {"Equals64"}
    /\ out' = Put(out, "Equals64",
                  [self    |-> TriangleEquals64(tri1, tri1),
                   forth   |-> TriangleEquals64(tri1, tri2),
                   back    |-> TriangleEquals64(tri2, tri1),
                   second  |-> {w \in Triangles64 : TriangleEquals64(tri2, w)},
                   first   |-> {w \in Triangles64 : TriangleEquals64(tri1, w)}])
    /\ UNCHANGED <<inputs, results>>

\* out["Area1"] := tri1.Area()
CallArea64First ==
    /\ "Area1" \notin done
    /\ done' = done \cup {"Area1"}
    /\ out' = Put(out, "Area1", TriangleArea64(tri1))
    /\ UNCHANGED <<inputs, results>>

\* out["Area2"] := tri2.Area()
CallArea64Second ==
    /\ "Area2" \notin done
    /\ done' = done \cup {"Area2"}
    /\ out' = Put(out, "Area2", TriangleArea64(tri2))
    /\ UNCHANGED <<inputs, results>>

NextTriangle64 ==
    \/ CallTriangleEquals64
    \/ CallArea64First
    \/ CallArea64Second

SpecTriangle64 == InitTriangle64 /\ [][NextTriangle64]_vars

(* ---------------------------------------------------------------------- *)
(* Intersects on two float64 segments, before and after the translation    *)
(* of both by pt1                                                          *)
(* ---------------------------------------------------------------------- *)
ShiftXs == {F64Make(n, 0) : n \in 0..MaxShiftX}

ShiftYs == {F64Make(0, 0), F64Make(1, 0)}

\* the horizontal segments given left end first
ShiftFirstSegments ==
    {l \in {LineSegment(Point(a, c), Point(b, c)) :
                a \in ShiftXs, b \in ShiftXs, c \in ShiftYs} :
        ~F64Lt(l.P2.X, l.P1.X)}

ShiftSegments ==
    {LineSegment(Point(a, c), Point(b, d)) :
        a \in ShiftXs, b \in ShiftXs, c \in ShiftYs, d \in ShiftYs}

\* translations by -1, 0 or 2^60 in x and by 0 or 1 in y
ShiftPoints ==
    {Point(x, y) : x \in {F64Make(-1, 0), F64Make(0, 0), F64Make(1, 60)},
                   y \in ShiftYs}

InitShift ==
    /\ l1 \in ShiftFirstSegments
    /\ l2 \in ShiftSegments
    /\ o1 = NoInterval
    /\ o2 = NoInterval
    /\ pt1 \in ShiftPoints
    /\ pt2 = NoPoint
    /\ scal = Fin(0)
    /\ theta = Dir(1, 0)
    /\ NoTriangles
    /\ NoResults

\* out["Intersects64"] := l1.Intersects(l2)
CallIntersects64 ==
    /\ "Intersects64" \notin done
    /\ done' = done \cup {"Intersects64"}
    /\ out' = Put(out, "Intersects64", Intersects64(l1, l2))
    /\ UNCHANGED <<inputs, results>>

\* out["IntersectsShifted64"] := l1.Plus(pt1).Intersects(l2.Plus(pt1))
CallIntersectsShifted64 ==
    /\ "IntersectsShifted64" \notin done
    /\ done' = done \cup {"IntersectsShifted64"}
    /\ out' = Put(out, "IntersectsShifted64",
                  Intersects64(LineSegmentPlus64(l1, pt1), LineSegmentPlus64(l2, pt1)))
    /\ UNCHANGED <<inputs, results>>

NextShift ==
    \/ CallIntersects64
    \/ CallIntersectsShifted64

SpecShift == InitShift /\ [][NextShift]_vars

(* ---------------------------------------------------------------------- *)
(* Plane geometry on the integer input grid, independent of the float      *)
(* model: the reference the results are compared with.                     *)
(* ---------------------------------------------------------------------- *)
PX(p) == p.X.n

PY(p) == p.Y.n

MinInt(a, b) == IF a < b THEN a ELSE b

MaxInt(a, b) == IF a < b THEN b ELSE a

\* twice the signed area of the triangle a, b, c: > 0 iff c is left of a->b
Cross(a, b, c) ==
    (PX(b) - PX(a)) * (PY(c) - PY(a)) - (PY(b) - PY(a)) * (PX(c) - PX(a))

\* (c - a) . (b - a)
Dot(a, b, c) ==
    (PX(b) - PX(a)) * (PX(c) - PX(a)) + (PY(b) - PY(a)) * (PY(c) - PY(a))

\* squared length of the segment s
Len2(s) == Dot(s.P1, s.P2, s.P2)

\* c lies on the closed segment a-b
OnSegment(a, b, c) ==
    /\ Cross(a, b, c) = 0
    /\ MinInt(PX(a), PX(b)) <= PX(c) /\ PX(c) <= MaxInt(PX(a), PX(b))
    /\ MinInt(PY(a), PY(b)) <= PY(c) /\ PY(c) <= MaxInt(PY(a), PY(b))

\* the closed segments s and t have a point in common
SharePoint(s, t) ==
    LET d1 == Cross(t.P1, t.P2, s.P1)
        d2 == Cross(t.P1, t.P2, s.P2)
        d3 == Cross(s.P1, s.P2, t.P1)
        d4 == Cross(s.P1, s.P2, t.P2)
    IN  \/ (d1 * d2 < 0 /\ d3 * d4 < 0)
        \/ OnSegment(t.P1, t.P2, s.P1)
        \/ OnSegment(t.P1, t.P2, s.P2)
        \/ OnSegment(s.P1, s.P2, t.P1)
        \/ OnSegment(s.P1, s.P2, t.P2)

Degenerate(s) == s.P1 = s.P2

\* the point p is less than the threshold away from the line through s
NearLine(s, p) ==
    Cross(s.P1, s.P2, p) * Cross(s.P1, s.P2, p)
        < float64EqualityThreshold * float64EqualityThreshold * Len2(s)

\* the point p is more than the threshold away from the line through s
BeyondLine(s, p) ==
    Cross(s.P1, s.P2, p) * Cross(s.P1, s.P2, p)
        > float64EqualityThreshold * float64EqualityThreshold * Len2(s)

\* the endpoints of t are strictly on opposite sides of the line through s
OppositeSides(s, t) == Cross(s.P1, s.P2, t.P1) * Cross(s.P1, s.P2, t.P2) < 0

\* the endpoints of t are strictly on the same side of the line through s
SameSide(s, t) == Cross(s.P1, s.P2, t.P1) * Cross(s.P1, s.P2, t.P2) > 0

\* exactly one endpoint of t is on the line through s
OneOnLine(s, t) ==
    (Cross(s.P1, s.P2, t.P1) = 0) # (Cross(s.P1, s.P2, t.P2) = 0)

\* the foot of the perpendicular from p onto the line through s is within s
FootWithin(s, p) == 0 <= Dot(s.P1, s.P2, p) /\ Dot(s.P1, s.P2, p) <= Len2(s)

\* the point where the line through t meets the line through s is within s
\* (for t not parallel to s)
MeetsWithin(s, t) ==
    LET c1 == Cross(s.P1, s.P2, t.P1)
        c2 == Cross(s.P1, s.P2, t.P2)
        num == c1 * Dot(s.P1, s.P2, t.P2) - c2 * Dot(s.P1, s.P2, t.P1)
        den == c1 - c2
    IN  0 <= num * den /\ num * den <= Len2(s) * den * den

Collinear(s, t) ==
    /\ ~Degenerate(s)
    /\ Cross(s.P1, s.P2, t.P1) = 0
    /\ Cross(s.P1, s.P2, t.P2) = 0

SharedEndpoint(s, t) ==
    s.P1 = t.P1 \/ s.P1 = t.P2 \/ s.P2 = t.P1 \/ s.P2 = t.P2

Intersected == "Intersects" \in done

(* ---------------------------------------------------------------------- *)
(* Claims about Intersects (specification Spec)                            *)
(* ---------------------------------------------------------------------- *)

\* C1: for all segments with finite coordinates, Intersects(l1, l2) is true
\* if and only if the two closed segments share a point of the plane.
C1_IntersectsIffSharePoint ==
    Intersected => (res <=> SharePoint(l1, l2))

\* C2: whenever some endpoint of l1 equals some endpoint of l2, in whatever
\* order the endpoints are given, Intersects(l1, l2) is true.
C2_SharedEndpointIntersects ==
    (Intersected /\ SharedEndpoint(l1, l2)) => res

\* C3: for l2 on the line through l1, Intersects(l1, l2) is true when the
\* two extents along the line overlap and false when l2 lies beyond an end
\* of l1.
C3_CollinearOverlap ==
    (Intersected /\ Collinear(l1, l2)) => (res <=> SharePoint(l1, l2))

\* C4: every segment, a zero-length one included, intersects itself.
C4_SelfIntersects ==
    (Intersected /\ l1 = l2) => res

C4_Witness ==
    /\ Intersected
    /\ l1 = l2
    /\ PX(l1.P1) # PX(l1.P2)
    /\ PY(l1.P1) # PY(l1.P2)
    /\ res

\* C5 as stated: when the endpoints of l2 are strictly on opposite sides of
\* the line through l1, or one is on it and the other off it, Intersects is
\* true if and only if the point where l2 meets the line lies within l1.
C5_CrossingIffMeetsWithin ==
    (/\ Intersected
     /\ ~Degenerate(l1)
     /\ OppositeSides(l1, l2) \/ OneOnLine(l1, l2))
    => (res <=> MeetsWithin(l1, l2))

\* C5 amended: when the endpoints of l2 are on opposite sides of the line
\* through l1, each at least the threshold away from it, Intersects is true
\* if and only if the point where l2 meets the line lies within l1; when
\* one endpoint is less than the threshold away from the line and the other
\* at least the threshold away, Intersects is true if and only if the foot
\* of the perpendicular from the near endpoint lies within l1.
C5_CrossingWithThreshold ==
    (Intersected /\ ~Degenerate(l1)) =>
        /\ (/\ OppositeSides(l1, l2)
            /\ ~NearLine(l1, l2.P1)
            /\ ~NearLine(l1, l2.P2))
           => (res <=> MeetsWithin(l1, l2))
        /\ (NearLine(l1, l2.P1) /\ ~NearLine(l1, l2.P2))
           => (res <=> FootWithin(l1, l2.P1))
        /\ (NearLine(l1, l2.P2) /\ ~NearLine(l1, l2.P1))
           => (res <=> FootWithin(l1, l2.P2))

C5_Witness ==
    /\ Intersected
    /\ ~Degenerate(l1)
    /\ OppositeSides(l1, l2)
    /\ ~NearLine(l1, l2.P1)
    /\ ~NearLine(l1, l2.P2)
    /\ PX(l2.P1) # PX(l2.P2)
    /\ PY(l2.P1) # PY(l2.P2)
    /\ PY(l1.P1) # PY(l1.P2)
    /\ res

\* C6: when both endpoints of l2 are on the same side of the line through
\* l1, more than the threshold away from it, the x-intercept interval of the
\* transformed l2 is the NaN/NaN sentinel and Intersects is false.
C6_SameSideEmpty ==
    (/\ Intersected
     /\ ~Degenerate(l1)
     /\ SameSide(l1, l2)
     /\ BeyondLine(l1, l2.P1)
     /\ BeyondLine(l1, l2.P2))
    => (l2x = OpenInterval(NaN, NaN) /\ ~res)

C6_Witness ==
    /\ Intersected
    /\ ~Degenerate(l1)
    /\ SameSide(l1, l2)
    /\ BeyondLine(l1, l2.P1)
    /\ BeyondLine(l1, l2.P2)
    /\ PY(l1.P1) # PY(l1.P2)
    /\ PX(l1.P1) # PX(l1.P2)
    /\ l2x = OpenInterval(NaN, NaN)
    /\ ~res

(* ---------------------------------------------------------------------- *)
(* Claims about OpenInterval (specification SpecInterval)                  *)
(* ---------------------------------------------------------------------- *)

\* the order of the extended reals, for operands that are not NaN
ExtLeq(x, y) ==
    \/ x = NInf
    \/ y = PInf
    \/ (x.k = "fin" /\ y.k = "fin" /\ x.n * y.d <= y.n * x.d)

ExtMax(x, y) == IF ExtLeq(x, y) THEN y ELSE x

ExtMin(x, y) == IF ExtLeq(x, y) THEN x ELSE y

NoNaNBound(o) == o.Lower # NaN /\ o.Upper # NaN

\* o lies entirely below p
Below(o, p) == ~ExtLeq(p.Lower, o.Upper)

\* C7: Intersection(o1, o2) equals Intersection(o2, o1) under
\* OpenInterval.Equals, for all intervals, those with NaN bounds and those
\* with lower > upper included.
C7_IntersectionCommutes ==
    ({"Intersection12", "Intersection21"} \subseteq done)
    => OpenIntervalEquals(q12, q21)

C7_Witness ==
    /\ {"Intersection12", "Intersection21"} \subseteq done
    /\ o1.Lower.k = "fin"
    /\ o1.Upper.k = "fin"
    /\ o1.Upper.n < o1.Lower.n
    /\ o2.Lower = NaN
    /\ o2.Upper.k = "fin"
    /\ OpenIntervalEquals(q12, q21)

\* C8: for every interval o, Intersection(o, o) equals o under
\* OpenInterval.Equals.
C8_IntersectionIdempotent ==
    ("IntersectionSelf" \in done) => OpenIntervalEquals(q11, o1)

\* C9: for intervals without NaN bounds, Intersection(o1, o2) is the
\* NaN/NaN sentinel exactly when o1.upper < o2.lower or o2.upper < o1.lower,
\* and is {max of the lowers, min of the uppers} otherwise; two intervals
\* that touch in one point give the degenerate non-empty interval there.
C9_IntersectionValue ==
    (/\ "Intersection12" \in done
     /\ NoNaNBound(o1)
     /\ NoNaNBound(o2))
    => /\ (q12 = OpenInterval(NaN, NaN)) <=> (Below(o1, o2) \/ Below(o2, o1))
       /\ ~(Below(o1, o2) \/ Below(o2, o1))
          => q12 = OpenInterval(ExtMax(o1.Lower, o2.Lower),
                                ExtMin(o1.Upper, o2.Upper))
       /\ (o1.Upper = o2.Lower /\ ExtLeq(o1.Lower, o1.Upper)
                               /\ ExtLeq(o2.Lower, o2.Upper))
          => (q12 = OpenInterval(o1.Upper, o1.Upper) /\ ~IsEmpty(q12))

C9_Witness ==
    /\ "Intersection12" \in done
    /\ NoNaNBound(o1)
    /\ NoNaNBound(o2)
    /\ o1.Lower # o1.Upper
    /\ o2.Lower # o2.Upper
    /\ o1.Upper = o2.Lower
    /\ o1.Upper.k = "fin"
    /\ q12 = OpenInterval(o1.Upper, o1.Upper)

\* C10: IsEmpty(o) is true if and only if o.lower is NaN or o.upper is NaN,
\* whatever the other bound is.
C10_IsEmptyIffNaNBound ==
    ("IsEmpty" \in done) => (emp <=> (o1.Lower = NaN \/ o1.Upper = NaN))

C10_Witness ==
    /\ "IsEmpty" \in done
    /\ o1.Lower = NaN
    /\ o1.Upper.k = "fin"
    /\ emp

\* the two bounds are both NaN, or both numbers and the same number
SameBound(x, y) == (x = NaN /\ y = NaN) \/ (x # NaN /\ y # NaN /\ x = y)

\* C11: Equals(o1, o2) is true if and only if, for the lower and for the
\* upper bound independently, the two bounds are both NaN or numerically
\* equal; Equals is reflexive on every interval, NaN bounds included.
C11_EqualsPerBound ==
    /\ ("Equals12" \in done) =>
        (out["Equals12"] <=> (/\ SameBound(o1.Lower, o2.Lower)
                              /\ SameBound(o1.Upper, o2.Upper)))
    /\ ("EqualsSelf" \in done) => out["EqualsSelf"]

C11_Witness ==
    /\ {"Equals12", "EqualsSelf"} \subseteq done
    /\ o1.Lower = NaN
    /\ o2.Lower = NaN
    /\ o1.Upper = o2.Upper
    /\ o1.Upper.k = "fin"
    /\ out["Equals12"]
    /\ out["EqualsSelf"]

(* ---------------------------------------------------------------------- *)
(* Claims about Triangle (specification SpecTriangle)                      *)
(* ---------------------------------------------------------------------- *)
Vertices(t) == <<t.P1, t.P2, t.P3>>

\* both coordinates are numbers and are the same numbers
SamePoint(a, b) ==
    /\ a.X # NaN /\ a.Y # NaN
    /\ a = b

\* the vertices of u are the vertices of t in some order
IsReordering(t, u) ==
    \E pi \in [1..3 -> 1..3] :
        /\ \A i, j \in 1..3 : (i # j) => (pi[i] # pi[j])
        /\ \A i \in 1..3 : SamePoint(Vertices(t)[i], Vertices(u)[pi[i]])

\* C12: Triangle.Equals(t, u) is true if and only if the vertices of u are
\* a permutation of the vertices of t under exact Point equality; the result
\* is the same for all 6 orderings of either triangle.
C12_TriangleEqualsIffReordering ==
    /\ ("TriangleEquals" \in done) =>
        (out["TriangleEquals"] <=> IsReordering(tri1, tri2))
    /\ ({"TriangleEquals", "TriangleEqualsReordered"} \subseteq done) =>
        (out["TriangleEqualsReordered"] = {out["TriangleEquals"]})

C12_Witness ==
    /\ {"TriangleEquals", "TriangleEqualsReordered"} \subseteq done
    /\ tri1.P1 # tri1.P2 /\ tri1.P2 # tri1.P3 /\ tri1.P1 # tri1.P3
    /\ tri2 = TrianglePerm(tri1, 5)
    /\ out["TriangleEquals"]
    /\ out["TriangleEqualsReordered"] = {TRUE}

NoNaNVertex(t) == \A i \in 1..3 : Vertices(t)[i].X # NaN /\ Vertices(t)[i].Y # NaN

C13_PointXInterceptValue ==
    ("PointXIntercept" \in done) =>
        /\ (PY(pt1) = PY(pt2)) => out["PointXIntercept"] = PInf
        /\ (PY(pt1) # PY(pt2)) =>
             out["PointXIntercept"]
                 = Frac(PX(pt1) * PY(pt2) - PY(pt1) * PX(pt2), PY(pt2) - PY(pt1))
        /\ out["PointXIntercept"] # NInf

(* ---------------------------------------------------------------------- *)
(* C15                                                                     *)
(* ---------------------------------------------------------------------- *)
\* the float64 following a rounded value b > 0
BinSucc(b) ==
    LET m1 == BigMulAdd(b.m, 1, 1)
    IN  IF m1 = Two53 THEN Bin(Two52, b.e + 1) ELSE Bin(m1, b.e)

\* a and b are the same float64 or neighbouring ones
WithinOneUlp(a, b) == a = b \/ a = BinSucc(b) \/ b = BinSucc(a)

\* x^2 + y^2 of a point with integer coordinates
Norm2(p) == PX(p) * PX(p) + PY(p) * PY(p)

ScaledBoth == {"Times", "Magnitude"} \subseteq done /\ scal # Fin(0)

\* C15: for f # 0, Magnitude(Times(p, f)) is the same float64 as
\* |f| * Magnitude(p).
C15_MagnitudeScalesExactly ==
    ScaledBoth =>
        Magnitude(out["Times"]) = Float64Mul(FAbs(scal), out["Magnitude"])

\* C15 as amended: for f # 0, the squared magnitude of Times(p, f) is f^2 times
\* that of p, and Magnitude(Times(p, f)) and |f| * Magnitude(p) are the same
\* float64 or neighbouring ones; they are the same when |f| is a power of two.
C15_MagnitudeScalesWithinUlp ==
    ScaledBoth =>
        /\ Norm2(out["Times"]) = scal.n * scal.n * Norm2(pt1)
        /\ WithinOneUlp(Magnitude(out["Times"]),
                        Float64Mul(FAbs(scal), out["Magnitude"]))
        /\ (AbsInt(scal.n) \in {1, 2, 4, 8}) =>
               Magnitude(out["Times"]) = Float64Mul(FAbs(scal), out["Magnitude"])

\* a point off the axes scaled by 3, where the two roundings differ
C15_Witness ==
    /\ ScaledBoth
    /\ scal = Fin(3)
    /\ pt1 = Point(Fin(1), Fin(1))
    /\ Magnitude(out["Times"]) # Float64Mul(FAbs(scal), out["Magnitude"])

(* ---------------------------------------------------------------------- *)
(* C16                                                                     *)
(* ---------------------------------------------------------------------- *)
\* the angle from direction a to direction d, counterclockwise
AngleBetween(a, d) == Dir(a.x * d.x + a.y * d.y, a.x * d.y - a.y * d.x)

Rotated == {"Rotate", "Angle"} \subseteq done /\ pt1 # Point(Fin(0), Fin(0))

\* C16: for a non-zero p, Rotate(p, theta) is (x cos - y sin, x sin + y cos)
\* (here times the scale of Sin and Cos), the angle from Angle(p) to
\* Angle(Rotate(p, theta)) is theta modulo a full turn, and the quarter turns
\* of (1, 0) are (0, 1), (-1, 0) and (0, -1).
C16_RotateAddsAngle ==
    Rotated =>
        /\ out["Rotate"] = Point(Fin(PX(pt1) * theta.x - PY(pt1) * theta.y),
                                 Fin(PX(pt1) * theta.y + PY(pt1) * theta.x))
        /\ AngleBetween(out["Angle"], PointAngle(out["Rotate"])) = theta
        /\ (pt1 = Point(Fin(1), Fin(0)) /\ Hyp2(theta) = 1) =>
               out["Rotate"] = Point(Fin(theta.x), Fin(theta.y))

\* a quarter turn of (-1, 0), whose angle pi wraps around to -pi/2
C16_Witness ==
    /\ Rotated
    /\ pt1 = Point(Fin(-1), Fin(0))
    /\ theta = Dir(0, 1)
    /\ out["Angle"] = Dir(-1, 0)
    /\ PointAngle(out["Rotate"]) = Dir(0, -1)

(* ---------------------------------------------------------------------- *)
(* C17                                                                     *)
(* ---------------------------------------------------------------------- *)
\* the coordinate x moved by the integer d: NaN and +Inf stay what they are
Shift(x, d) == IF x.k = "fin" THEN Fin(x.n + d) ELSE x

\* the segment l with both endpoints moved by sign * p
Moved(l, p, sign) ==
    LineSegment(Point(Shift(l.P1.X, sign * PX(p)), Shift(l.P1.Y, sign * PY(p))),
                Point(Shift(l.P2.X, sign * PX(p)), Shift(l.P2.Y, sign * PY(p))))

Translated == {"SegmentPlus", "SegmentMinus"} \subseteq done

HasNaNCoord(l) == NaN \in {l.P1.X, l.P1.Y, l.P2.X, l.P2.Y}

\* C17: Plus(l, p) and Minus(l, p) move both endpoints by +p and -p, and
\* for p = (0, 0) the result Equals l, for every segment l.
C17_TranslateEqualsAtZero ==
    Translated =>
        /\ out["SegmentPlus"] = Moved(l1, pt1, 1)
        /\ out["SegmentMinus"] = Moved(l1, pt1, -1)
        /\ (pt1 = Point(Fin(0), Fin(0))) =>
               LineSegmentEquals(out["SegmentPlus"], l1)

\* C17 as amended: Plus(l, p) and Minus(l, p) move both endpoints by +p and
\* -p, and for p = (0, 0) the result Equals l exactly when no coordinate of l
\* is NaN.
C17_TranslateEqualsUnlessNaN ==
    Translated =>
        /\ out["SegmentPlus"] = Moved(l1, pt1, 1)
        /\ out["SegmentMinus"] = Moved(l1, pt1, -1)
        /\ (pt1 = Point(Fin(0), Fin(0))) =>
               /\ LineSegmentEquals(out["SegmentPlus"], l1) <=> ~HasNaNCoord(l1)
               /\ LineSegmentEquals(out["SegmentMinus"], l1) <=> ~HasNaNCoord(l1)

\* a finite segment moved by a point with a negative component, and the
\* translation by (0, 0) of a segment without NaN
C17_Witness ==
    /\ Translated
    /\ ~HasNaNCoord(l1)
    /\ l1.P1 # l1.P2
    /\ \/ pt1 = Point(Fin(1), Fin(-2)) /\ out["SegmentPlus"] # out["SegmentMinus"]
       \/ pt1 = Point(Fin(0), Fin(0)) /\ LineSegmentEquals(out["SegmentPlus"], l1)

(* ---------------------------------------------------------------------- *)
(* C19, C20                                                                *)
(* ---------------------------------------------------------------------- *)
\* p is a point of the x-axis: x is a number and |y| is below the threshold
OnAxis(p) ==
    /\ p.X # NaN
    /\ p.Y.k = "fin"
    /\ AbsInt(p.Y.n) < float64EqualityThreshold * p.Y.d

\* p is a point off the x-axis by the threshold or more, above or below
OffAxis(p) ==
    /\ p.X # NaN
    /\ p.Y.k = "fin"
    /\ AbsInt(p.Y.n) >= float64EqualityThreshold * p.Y.d

AxisDone == {"XIntercept", "IntersectionAxis", "IntersectionAxisReversed"} \subseteq done

\* C19: for both endpoints on the x-axis, XIntercept(l) is {p1.x, p2.x} as
\* given, and for a well-ordered i, Intersection(i, {p1.x, p2.x}) is empty
\* exactly when Intersection(i, {p2.x, p1.x}) is.
C19_AxisIntervalEitherOrder ==
    (AxisDone /\ OnAxis(l1.P1) /\ OnAxis(l1.P2)) =>
        /\ out["XIntercept"] = OpenInterval(l1.P1.X, l1.P2.X)
        /\ IsEmpty(out["IntersectionAxis"]) <=> IsEmpty(out["IntersectionAxisReversed"])

\* C20: for one endpoint on the x-axis and the other above or below it by the
\* threshold or more (x-coordinates not NaN), XIntercept(l) is {v, v} with v
\* the x of the endpoint on the axis.
C20_OneOnAxisDegenerate ==
    ("XIntercept" \in done) =>
        /\ (OnAxis(l1.P1) /\ OffAxis(l1.P2)) =>
               out["XIntercept"] = OpenInterval(l1.P1.X, l1.P1.X)
        /\ (OffAxis(l1.P1) /\ OnAxis(l1.P2)) =>
               out["XIntercept"] = OpenInterval(l1.P2.X, l1.P2.X)

\* p2 within the threshold of the axis without being on it, p1 below, and
\* the two endpoints at different x
C20_Witness ==
    /\ "XIntercept" \in done
    /\ OffAxis(l1.P1) /\ OnAxis(l1.P2)
    /\ l1.P1.Y = Fin(-1)
    /\ l1.P2.Y = Frac(1, 2)
    /\ l1.P1.X # l1.P2.X
    /\ out["XIntercept"] = OpenInterval(l1.P2.X, l1.P2.X)

(* ---------------------------------------------------------------------- *)
(* C18                                                                     *)
(* ---------------------------------------------------------------------- *)
\* C18: no call changes a value it was called on or with, and no call
\* changes a result returned by an earlier call.
C18_CallsLeaveInputsUnchanged ==
    [][/\ inputs' = inputs
       /\ \A c \in DOMAIN out : out'[c] = out[c]
       /\ ("Intersection12" \in done) => q12' = q12
       /\ ("Intersects" \in done) => res' = res]_vars

\* every one of the operations was called, with results other than the inputs
C18_Witness ==
    /\ done = {"PointPlus", "PointMinus", "Times", "Divide", "Rotate",
               "RotateAboutOrigin", "XIntercept", "Intersection12",
               "Intersects", "Equals12", "Area"}
    /\ out["Times"] # pt1
    /\ out["Rotate"] # pt1
    /\ out["RotateAboutOrigin"] # l1
    /\ q12 # o1

(* ---------------------------------------------------------------------- *)
(* C22                                                                     *)
(* ---------------------------------------------------------------------- *)
\* C22: when the x of either endpoint is NaN, XIntercept(l) is the NaN/NaN
\* sentinel, whatever the two y are.
C22_NaNXGivesSentinel ==
    ("XIntercept" \in done /\ (l1.P1.X = NaN \/ l1.P2.X = NaN)) =>
        out["XIntercept"] = OpenInterval(NaN, NaN)

\* one x is NaN and both endpoints have y = 0, where the sign analysis
\* would have returned the two x
C22_Witness ==
    /\ "XIntercept" \in done
    /\ l1.P1.X = Fin(1)
    /\ l1.P2.X = NaN
    /\ l1.P1.Y = Fin(0)
    /\ l1.P2.Y = Fin(0)
    /\ out["XIntercept"] = OpenInterval(NaN, NaN)

(* ---------------------------------------------------------------------- *)
(* C21                                                                     *)
(* ---------------------------------------------------------------------- *)
\* the y of the endpoints of l lie on strictly opposite sides of the axis,
\* each at least the threshold away from it
StrictSignChange(l) ==
    sign_close_to_zero64(l.P1.Y) * sign_close_to_zero64(l.P2.Y) = -1

\* no coordinate of l is NaN or infinite
FiniteSegment(l) ==
    \A c \in {l.P1.X, l.P1.Y, l.P2.X, l.P2.Y} : ~IsNaN(c) /\ ~IsInf(c)

\* C21: for a segment with finite endpoints whose y have strictly opposite
\* signs, XIntercept(l) is {v, v} with v = P1.XIntercept(P2), and never the
\* NaN/NaN sentinel of the infinite-intercept guard.
C21_CrossingNeverSentinel ==
    ({"XIntercept64", "PointXIntercept64"} \subseteq done
        /\ FiniteSegment(l1) /\ StrictSignChange(l1)) =>
        /\ out["XIntercept64"] # OpenInterval(NaN, NaN)
        /\ out["XIntercept64"] =
               OpenInterval(out["PointXIntercept64"], out["PointXIntercept64"])

(* ---------------------------------------------------------------------- *)
(* C29                                                                     *)
(* ---------------------------------------------------------------------- *)
\* x <= y for float64 that are not NaN
F64Le(x, y) == ~F64Lt(y, x)

MinX(l) == IF F64Lt(l.P2.X, l.P1.X) THEN l.P2.X ELSE l.P1.X

MaxX(l) == IF F64Lt(l.P1.X, l.P2.X) THEN l.P2.X ELSE l.P1.X

\* 2^-48 times the larger |x| of l, plus the smallest normal float64
ExtentTolerance(l) ==
    LET a == F64Abs(l.P1.X)
        b == F64Abs(l.P2.X)
    IN  F64Add(F64Mul(F64Make(1, -48), IF F64Lt(a, b) THEN b ELSE a),
               F64Make(1, -1022))

\* both bounds of o lie in [lo, hi]
BoundsWithin(o, lo, hi) ==
    /\ F64Le(lo, o.Lower) /\ F64Le(o.Lower, hi)
    /\ F64Le(lo, o.Upper) /\ F64Le(o.Upper, hi)

\* C29 as stated: a non-empty XIntercept(l) of a segment with finite
\* endpoints has both bounds between the smaller and the larger x of l.
C29_WithinExtentExactly ==
    ("XIntercept64" \in done /\ FiniteSegment(l1)
        /\ ~IsEmpty(out["XIntercept64"])) =>
        BoundsWithin(out["XIntercept64"], MinX(l1), MaxX(l1))

\* C29: a non-empty XIntercept(l) of a segment with finite endpoints has both
\* bounds between the smaller and the larger x of l when an endpoint is on
\* the axis, and within 2^-48 of the larger |x| (plus 2^-1022) of that range
\* when the y change sign.
C29_WithinExtentTolerance ==
    ("XIntercept64" \in done /\ FiniteSegment(l1)
        /\ ~IsEmpty(out["XIntercept64"])) =>
        IF StrictSignChange(l1)
        THEN BoundsWithin(out["XIntercept64"],
                          F64Sub(MinX(l1), ExtentTolerance(l1)),
                          F64Add(MaxX(l1), ExtentTolerance(l1)))
        ELSE BoundsWithin(out["XIntercept64"], MinX(l1), MaxX(l1))

\* a crossing computed above the larger x: P1 = (-3, -2^30) and
\* P2 = (1 + 3 * 2^-52, 2^-29) give 1 + 4 * 2^-52
C29_Witness ==
    /\ "XIntercept64" \in done
    /\ StrictSignChange(l1)
    /\ l1.P1 = Point(F64Make(-3, 0), F64Make(-1, 30))
    /\ l1.P2 = Point(OnePlus3Ulp, F64Make(1, -29))
    /\ out["XIntercept64"].Lower = F64Add(F64Make(1, 0), F64Make(4, -52))
    /\ F64Lt(MaxX(l1), out["XIntercept64"].Lower)

(* ---------------------------------------------------------------------- *)
(* C23                                                                     *)
(* ---------------------------------------------------------------------- *)
\* the squared scale of the coordinates of the frame of l
FrameScale2(l) == Hyp2(NegAngle(LineSegmentAngle(LineSegmentMinus(l, l.P1))))

\* C23: in the frame Intersects builds from l1, l1.P1 is the origin and l1.P2
\* is on the x-axis at x = |l1| >= 0, so the interval of l1 is {0, |l1|};
\* lengths are in units of the frame, sqrt(FrameScale2(l1)) to one.
C23_FirstSegmentOnAxis ==
    ("Intersects" \in done) =>
        LET r == IntersectsFrame(l1, l2).l1_rotated
        IN  /\ r.P1 = Point(Fin(0), Fin(0))
            /\ r.P2.Y = Fin(0)
            /\ ~IsNaN(r.P2.X) /\ ~IsInf(r.P2.X)
            /\ ~FLt(r.P2.X, Fin(0))
            /\ FMul(r.P2.X, r.P2.X) = Fin(Len2(l1) * FrameScale2(l1))
            /\ l1x = OpenInterval(Fin(0), r.P2.X)

\* l1 from (1, 1) to (3, 2): direction (2, 1), length sqrt(5), interval
\* {0, 5} in units of 1/sqrt(5)
C23_Witness ==
    /\ "Intersects" \in done
    /\ l1 = LineSegment(Point(Fin(1), Fin(1)), Point(Fin(3), Fin(2)))
    /\ l1x = OpenInterval(Fin(0), Fin(5))

(* ---------------------------------------------------------------------- *)
(* C24                                                                     *)
(* ---------------------------------------------------------------------- *)
\* C24: for all segments with finite coordinates, Intersects(l1, l2) equals
\* Intersects(l2, l1).
C24_IntersectsSymmetric ==
    ("Intersects" \in done /\ "IntersectsSwapped" \in done) =>
        (res <=> out["IntersectsSwapped"])

(* ---------------------------------------------------------------------- *)
(* C26                                                                     *)
(* ---------------------------------------------------------------------- *)
\* C26: when o1 or o2 is empty (a NaN in either bound), Intersection(o1, o2)
\* and Intersection(o2, o1) are empty.
C26_EmptinessAbsorbing ==
    ({"Intersection12", "Intersection21"} \subseteq done
        /\ (IsEmpty(o1) \/ IsEmpty(o2))) =>
        (IsEmpty(q12) /\ IsEmpty(q21))

(* ---------------------------------------------------------------------- *)
(* C25                                                                     *)
(* ---------------------------------------------------------------------- *)
\* some coordinate of some endpoint of l is NaN
HasNaN(l) == \E c \in {l.P1.X, l.P1.Y, l.P2.X, l.P2.Y} : IsNaN(c)

\* C25: when any coordinate of l1 or l2 is NaN, Intersects(l1, l2) is false:
\* XIntercept sees a NaN x and returns the NaN/NaN sentinel.
C25_NaNNeverIntersects ==
    (Intersected /\ (HasNaN(l1) \/ HasNaN(l2))) =>
        (~res /\ l2x = OpenInterval(NaN, NaN))

\* the only NaN is the y of the first endpoint of l2, which otherwise lies
\* along l1; the rotation carries it into the x
C25_Witness ==
    /\ Intersected
    /\ l1 = LineSegment(Point(Fin(0), Fin(0)), Point(Fin(1), Fin(0)))
    /\ l2 = LineSegment(Point(Fin(0), NaN), Point(Fin(1), Fin(0)))
    /\ ~res

(* ---------------------------------------------------------------------- *)
(* C27                                                                     *)
(* ---------------------------------------------------------------------- *)
\* o has no NaN bound and Lower <= Upper
IsWellOrdered(o) == ~IsNaN(o.Lower) /\ ~IsNaN(o.Upper) /\ ~FLt(o.Upper, o.Lower)

\* the well-ordered o lies within p
ContainedIn(o, p) ==
    /\ ~IsNaN(p.Lower) /\ ~IsNaN(p.Upper)
    /\ ~FLt(o.Lower, p.Lower)
    /\ ~FLt(p.Upper, o.Upper)

\* C27: in a chain of Intersection calls that starts from well-ordered
\* intervals, every result is the NaN/NaN sentinel or a well-ordered interval
\* contained in both operands of the call.
C27_WellOrderedClosed ==
    ("Chain" \in done) =>
        \/ q12 = OpenInterval(NaN, NaN)
        \/ (IsWellOrdered(q12) /\ ContainedIn(q12, o1) /\ ContainedIn(q12, o2))

(* ---------------------------------------------------------------------- *)
(* C30                                                                     *)
(* ---------------------------------------------------------------------- *)
\* Equals is reflexive, symmetric and transitive on tri1, tri2 and every
\* third triangle
EqualsIsEquivalence ==
    LET e == out["Equals64"]
    IN  /\ e.self
        /\ e.forth <=> e.back
        /\ e.forth => (e.second \subseteq e.first)

AreaTolerance(t) ==
    F64Mul(F64Make(1, -50),
           F64Mul(F64Add(F64Add(F64Abs(t.P1.X), F64Abs(t.P2.X)), F64Abs(t.P3.X)),
                  F64Add(F64Add(F64Abs(t.P1.Y), F64Abs(t.P2.Y)), F64Abs(t.P3.Y))))

\* t and u have equal vertices in the same order
SameOrder(t, u) ==
    /\ PointEquals64(t.P1, u.P1)
    /\ PointEquals64(t.P2, u.P2)
    /\ PointEquals64(t.P3, u.P3)

\* no coordinate of t is NaN or infinite
FiniteTriangle(t) ==
    \A c \in {t.P1.X, t.P1.Y, t.P2.X, t.P2.Y, t.P3.X, t.P3.Y} :
        ~IsNaN(c) /\ ~IsInf(c)

C28_TranslationInvariant ==
    ({"Intersects64", "IntersectsShifted64"} \subseteq done) =>
        (out["IntersectsShifted64"] <=> out["Intersects64"])

\* x + y is computed without rounding (the error term of the sum is zero)
SumIsExact(x, y) ==
    LET sum == F64Add(x, y)
        bp  == F64Sub(sum, x)
        bx  == F64Sub(sum, bp)
    IN  F64IsZero(F64Add(F64Sub(x, bx), F64Sub(y, bp)))

\* every coordinate of l plus p is computed without rounding
ShiftIsExact(l, p) ==
    /\ SumIsExact(l.P1.X, p.X) /\ SumIsExact(l.P1.Y, p.Y)
    /\ SumIsExact(l.P2.X, p.X) /\ SumIsExact(l.P2.Y, p.Y)

\* C28: for all segments l1, l2 and every finite Point p such that no
\* coordinate sum of Plus(l1, p) and Plus(l2, p) is rounded,
\* Intersects(Plus(l1, p), Plus(l2, p)) equals Intersects(l1, l2).
C28_ExactTranslationInvariant ==
    ({"Intersects64", "IntersectsShifted64"} \subseteq done
        /\ ShiftIsExact(l1, pt1) /\ ShiftIsExact(l2, pt1)) =>
        (out["IntersectsShifted64"] <=> out["Intersects64"])

\* l2 stands on the middle of l1 and both move by (-1, 1)
C28_Witness ==
    /\ {"Intersects64", "IntersectsShifted64"} \subseteq done
    /\ l1 = LineSegment(Point(F64Make(0, 0), F64Make(0, 0)),
                        Point(F64Make(2, 0), F64Make(0, 0)))
    /\ l2 = LineSegment(Point(F64Make(1, 0), F64Make(0, 0)),
                        Point(F64Make(1, 0), F64Make(1, 0)))
    /\ pt1 = Point(F64Make(-1, 0), F64Make(1, 0))
    /\ ShiftIsExact(l1, pt1) /\ ShiftIsExact(l2, pt1)
    /\ out["Intersects64"]
    /\ out["IntersectsShifted64"]

====
